---- MODULE Spec2Model ----
(***************************************************************************)
(* Model of the documentation ingestion pipeline of src/src/lib/docs.ts:   *)
(* the memoized getDocsData entry point, the run of loadDocsFromRemote     *)
(* (manifest fetch, manifest walk, candidate fetches, page registry) and   *)
(* the pure path and slug functions it uses.                               *)
(*                                                                         *)
(* Text is modelled as a sequence of one-character strings, so that the    *)
(* regular expressions and string methods of the source are computed and   *)
(* not assumed.  The single token RawRoot stands for the fixed prefix      *)
(* "https://raw.githubusercontent.com/pinchtab/pinchtab/refs/heads/main"   *)
(* of DOCS_JSON_URL, which no expression of the source looks into.         *)
(***************************************************************************)
EXTENDS Integers, Sequences, FiniteSets, TLC

(***************************************************************************)
(* Bounds of the model.                                                    *)
(***************************************************************************)
\* The number of getDocsData calls in the process.
MaxCalls == 2
\* The number of source path references in a manifest, all sections together.
MaxRefs == 3
\* The longest endpoints array of an API reference document.
MaxEndpoints == 3

(***************************************************************************)
(* Text helpers: the string methods and regular expressions of the source. *)
(***************************************************************************)
UpperChars == <<"A","B","C","D","E","F","G","H","I","J","K","L","M",
                "N","O","P","Q","R","S","T","U","V","W","X","Y","Z">>
LowerChars == <<"a","b","c","d","e","f","g","h","i","j","k","l","m",
                "n","o","p","q","r","s","t","u","v","w","x","y","z">>
DigitChars == {"0","1","2","3","4","5","6","7","8","9"}

Range(s) == {s[i] : i \in DOMAIN s}

UpperSet == Range(UpperChars)
LowerSet == Range(LowerChars)
LowerOf == [c \in UpperSet |-> LowerChars[CHOOSE i \in 1..26 : UpperChars[i] = c]]
UpperOf == [c \in LowerSet |-> UpperChars[CHOOSE i \in 1..26 : LowerChars[i] = c]]

\* String.prototype.toLowerCase on one character.
LowerChar(c) == IF c \in UpperSet THEN LowerOf[c] ELSE c

\* String.prototype.toUpperCase on one character.
UpperChar(c) == IF c \in LowerSet THEN UpperOf[c] ELSE c

ToLowerCase(s) == [i \in DOMAIN s |-> LowerChar(s[i])]

Drop(s, n) == IF n >= Len(s) THEN <<>> ELSE SubSeq(s, n + 1, Len(s))
Take(s, n) == IF n >= Len(s) THEN s ELSE SubSeq(s, 1, n)

StartsWith(s, p) == Len(s) >= Len(p) /\ SubSeq(s, 1, Len(p)) = p
EndsWith(s, p) == Len(s) >= Len(p) /\ SubSeq(s, Len(s) - Len(p) + 1, Len(s)) = p

\* The number of leading characters of s that are in the set cs.
RECURSIVE LeadingRun(_, _)
LeadingRun(s, cs) ==
  IF s # <<>> /\ Head(s) \in cs THEN 1 + LeadingRun(Tail(s), cs) ELSE 0

\* The number of trailing characters of s that are in the set cs.
RECURSIVE TrailingRun(_, _)
TrailingRun(s, cs) ==
  IF s # <<>> /\ s[Len(s)] \in cs
  THEN 1 + TrailingRun(SubSeq(s, 1, Len(s) - 1), cs)
  ELSE 0

\* String.prototype.split(sep) for a one-character separator: "" gives [""].
RECURSIVE SplitAcc(_, _, _)
SplitAcc(s, sep, cur) ==
  IF s = <<>> THEN <<cur>>
  ELSE IF Head(s) = sep THEN <<cur>> \o SplitAcc(Tail(s), sep, <<>>)
  ELSE SplitAcc(Tail(s), sep, Append(cur, Head(s)))

Split(s, sep) == SplitAcc(s, sep, <<>>)

\* Array.prototype.join(sep).
RECURSIVE Join(_, _)
Join(parts, sep) ==
  IF parts = <<>> THEN <<>>
  ELSE IF Len(parts) = 1 THEN parts[1]
  ELSE parts[1] \o sep \o Join(Tail(parts), sep)

\* Array.prototype.filter(Boolean) on an array of strings: drops the empty ones.
RECURSIVE FilterNonEmpty(_)
FilterNonEmpty(parts) ==
  IF parts = <<>> THEN <<>>
  ELSE IF Head(parts) = <<>> THEN FilterNonEmpty(Tail(parts))
  ELSE <<Head(parts)>> \o FilterNonEmpty(Tail(parts))

\* replace(/\\/g, '/')
ReplaceBackslashes(s) == [i \in DOMAIN s |-> IF s[i] = "\\" THEN "/" ELSE s[i]]

\* replace(/^\.\/+/, '')
StripLeadingDotSlash(s) ==
  IF s # <<>> /\ Head(s) = "." /\ LeadingRun(Tail(s), {"/"}) >= 1
  THEN Drop(s, 1 + LeadingRun(Tail(s), {"/"}))
  ELSE s

\* replace(/^\/+/, '')
StripLeadingSlashes(s) == Drop(s, LeadingRun(s, {"/"}))

\* replace(/\.[^.]+$/, ''): drops a final extension of at least one character.
StripExtension(s) ==
  LET ext == TrailingRun(s, Range(s) \ {"."})
  IN IF ext >= 1 /\ ext < Len(s) THEN SubSeq(s, 1, Len(s) - ext - 1) ELSE s

\* The text of a number, as template literals print it.
RECURSIVE NumberText(_)
NumberText(n) ==
  LET d == <<"0","1","2","3","4","5","6","7","8","9">>
  IN IF n < 10 THEN <<d[n + 1]>> ELSE NumberText(n \div 10) \o <<d[(n % 10) + 1]>>

(***************************************************************************)
(* Program constants.                                                      *)
(***************************************************************************)
\* The fixed prefix of DOCS_JSON_URL up to the branch, as one token.
RawRoot == "https://raw.githubusercontent.com/pinchtab/pinchtab/refs/heads/main"

DOCS_BRANCH == <<"m","a","i","n">>

DOCS_JSON_URL ==
  <<RawRoot, "/","d","o","c","s","/","i","n","d","e","x",".","j","s","o","n">>

ApiReferenceSuffix ==
  <<"r","e","f","e","r","e","n","c","e","s","/",
    "a","p","i","-","r","e","f","e","r","e","n","c","e",".","j","s","o","n">>

TEMP_SKIPPED_DOCS == {ApiReferenceSuffix}

(***************************************************************************)
(* Slugs.                                                                  *)
(***************************************************************************)
SlugChars == LowerSet \cup DigitChars

\* replace(/[^a-z0-9]+/g, '-'): every maximal run of other characters becomes one '-'.
RECURSIVE DashRuns(_, _)
DashRuns(s, inRun) ==
  IF s = <<>> THEN <<>>
  ELSE IF Head(s) \in SlugChars THEN <<Head(s)>> \o DashRuns(Tail(s), FALSE)
  ELSE IF inRun THEN DashRuns(Tail(s), TRUE)
  ELSE <<"-">> \o DashRuns(Tail(s), TRUE)

\* replace(/^-+|-+$/g, '')
TrimDashes(s) ==
  LET lead == LeadingRun(s, {"-"})
      rest == Drop(s, lead)
  IN Take(rest, Len(rest) - TrailingRun(rest, {"-"}))

slugify(value) == TrimDashes(DashRuns(ToLowerCase(value), FALSE))

\* Array.prototype.pop() of split('/'): the last segment.
LastSegment(s) == LET parts == Split(s, "/") IN parts[Len(parts)]

\* replace(/\\/g, '/').replace(/^\.\/+/, '').replace(/^\/+/, ''), the first line of
\* slugFromPath and of normalizeSourcePath.
NormalizedText(sourcePath) ==
  StripLeadingSlashes(StripLeadingDotSlash(ReplaceBackslashes(sourcePath)))

\* Mutant of slugFromPath: the parent directory is taken also when its slug is empty.
slugFromPathOfParent(sourcePath) ==
  LET normalized == NormalizedText(sourcePath)
      base == slugify(StripExtension(LastSegment(normalized)))
      parts == FilterNonEmpty(Split(normalized, "/"))
  IN IF base = <<"r","e","a","d","m","e">> \/ Len(base) = 0
     THEN IF Len(parts) <= 1 THEN <<"h","o","m","e">>
          ELSE slugify(parts[Len(parts) - 1])
     ELSE base

slugFromPath(sourcePath) ==
  LET normalized == NormalizedText(sourcePath)
      fileName == LastSegment(normalized)
      stem == StripExtension(fileName)
      base == slugify(stem)
      parts == FilterNonEmpty(Split(normalized, "/"))
      parent == IF Len(parts) <= 1 THEN <<>> ELSE slugify(parts[Len(parts) - 1])
  IN IF base = <<"r","e","a","d","m","e">> \/ Len(base) = 0
     THEN IF Len(parts) <= 1 THEN <<"h","o","m","e">>
          ELSE IF parent # <<>> THEN parent ELSE <<"h","o","m","e">>
     ELSE base

Suffixed(baseSlug, n) == baseSlug \o <<"-">> \o NumberText(n)

\* The while loop of makeUniqueSlug: the first suffix, from `suffix` on, not yet seen.
RECURSIVE FirstFreeSuffix(_, _, _)
FirstFreeSuffix(baseSlug, seen, suffix) ==
  IF Suffixed(baseSlug, suffix) \in seen
  THEN FirstFreeSuffix(baseSlug, seen, suffix + 1)
  ELSE suffix

\* Mutant of makeUniqueSlug: the suffixes start at 1.
makeUniqueSlugFromOne(baseSlug, seen) ==
  IF baseSlug \notin seen THEN baseSlug
  ELSE Suffixed(baseSlug, FirstFreeSuffix(baseSlug, seen, 1))

\* Mutant of makeUniqueSlug: the suffix 2 is taken without looking at `seen`.
makeUniqueSlugOnce(baseSlug, seen) ==
  IF baseSlug \notin seen THEN baseSlug ELSE Suffixed(baseSlug, 2)

\* makeUniqueSlug returns the slug; the set `seen` gains exactly that slug.
makeUniqueSlug(baseSlug, seen) ==
  IF baseSlug \notin seen THEN baseSlug
  ELSE Suffixed(baseSlug, FirstFreeSuffix(baseSlug, seen, 2))

(***************************************************************************)
(* Source paths.  A function that can throw returns a record: threw tells  *)
(* whether it threw, error is the thrown error, value the returned value.  *)
(***************************************************************************)
NoText == <<>>

Returned(v) == [threw |-> FALSE, value |-> v, error |-> "none"]
Threw(e) == [threw |-> TRUE, value |-> NoText, error |-> e]

\* Mutant of normalizeSourcePath: the '..' check is missing.
normalizeSourcePathNoTraversalCheck(sourcePath) ==
  LET normalized == NormalizedText(sourcePath)
  IN IF Len(normalized) = 0 THEN Threw("InvalidPath") ELSE Returned(normalized)

normalizeSourcePath(sourcePath) ==
  LET normalized == NormalizedText(sourcePath)
  IN IF Len(normalized) = 0 THEN Threw("InvalidPath")
     ELSE IF <<".", ".">> \in Range(Split(normalized, "/")) THEN Threw("InvalidPath")
     ELSE Returned(normalized)

\* Both return a BOOLEAN in value, or throw what normalizeSourcePath throws.
isTemporarilySkippedDoc(sourcePath) ==
  LET n == normalizeSourcePath(sourcePath)
  IN IF n.threw THEN n
     ELSE [threw |-> FALSE, value |-> ToLowerCase(n.value) \in TEMP_SKIPPED_DOCS, error |-> "none"]

isApiReferenceJson(sourcePath) ==
  LET n == normalizeSourcePath(sourcePath)
  IN IF n.threw THEN n
     ELSE [threw |-> FALSE, value |-> EndsWith(ToLowerCase(n.value), ApiReferenceSuffix),
           error |-> "none"]

\* encodeURIComponent on the characters of the model's alphabet that it escapes.
PercentCode(c) ==
  CASE c = " " -> <<"%","2","0">>
    [] c = ":" -> <<"%","3","A">>
    [] c = "\\" -> <<"%","5","C">>
    [] c = "/" -> <<"%","2","F">>
    [] OTHER -> <<c>>

RECURSIVE encodeURIComponent(_)
encodeURIComponent(segment) ==
  IF segment = <<>> THEN <<>>
  ELSE PercentCode(Head(segment)) \o encodeURIComponent(Tail(segment))

RECURSIVE EncodeEach(_)
EncodeEach(parts) ==
  IF parts = <<>> THEN <<>>
  ELSE <<encodeURIComponent(Head(parts))>> \o EncodeEach(Tail(parts))

encodePath(pathValue) == Join(EncodeEach(FilterNonEmpty(Split(pathValue, "/"))), <<"/">>)

\* replace(/\/docs\/index\.json$/, '/')
buildRepoBaseUrl(docsJsonUrl) ==
  LET tail == <<"/","d","o","c","s","/","i","n","d","e","x",".","j","s","o","n">>
  IN IF EndsWith(docsJsonUrl, tail)
     THEN SubSeq(docsJsonUrl, 1, Len(docsJsonUrl) - Len(tail)) \o <<"/">>
     ELSE docsJsonUrl

\* replace(/\/[^/]+$/, '/') in fetchDocsConfig: the manifest's directory.
DocsBaseUrlOf(docsJsonUrl) ==
  LET last == TrailingRun(docsJsonUrl, Range(docsJsonUrl) \ {"/"})
  IN IF last >= 1 /\ last < Len(docsJsonUrl)
     THEN SubSeq(docsJsonUrl, 1, Len(docsJsonUrl) - last)
     ELSE docsJsonUrl

\* /^https?:\/\//i
IsAbsoluteUrl(sourcePath) ==
  LET low == ToLowerCase(Take(sourcePath, 8))
  IN \/ StartsWith(low, <<"h","t","t","p",":","/","/">>)
     \/ StartsWith(low, <<"h","t","t","p","s",":","/","/">>)

\* filter((candidate, index) => candidates.indexOf(candidate) === index)
RECURSIVE FirstOccurrences(_, _)
FirstOccurrences(xs, before) ==
  IF xs = <<>> THEN <<>>
  ELSE IF Head(xs) \in before THEN FirstOccurrences(Tail(xs), before)
  ELSE <<Head(xs)>> \o FirstOccurrences(Tail(xs), before \cup {Head(xs)})

\* Mutant of resolveDocSourceCandidates: the list is returned without the filter.
resolveDocSourceCandidatesUnfiltered(docsBase, repoBase, sourcePath) ==
  IF IsAbsoluteUrl(sourcePath) THEN Returned(<<sourcePath>>)
  ELSE LET safe == normalizeSourcePath(sourcePath)
           fromDocs == docsBase \o encodePath(safe.value)
           fromRepo == repoBase \o encodePath(safe.value)
       IN IF safe.threw THEN safe
          ELSE IF StartsWith(safe.value, <<"d","o","c","s","/">>)
          THEN Returned(<<fromDocs, fromRepo, fromRepo>>)
          ELSE Returned(<<fromDocs, fromRepo>>)

\* Mutant of resolveDocSourceCandidates: the repository root is tried first.
resolveDocSourceCandidatesRepoFirst(docsBase, repoBase, sourcePath) ==
  IF IsAbsoluteUrl(sourcePath) THEN Returned(<<sourcePath>>)
  ELSE LET safe == normalizeSourcePath(sourcePath)
       IN IF safe.threw THEN safe
          ELSE Returned(<<repoBase \o encodePath(safe.value),
                          docsBase \o encodePath(safe.value)>>)

\* Returns the list of candidate URLs in value, or throws.
resolveDocSourceCandidates(docsBase, repoBase, sourcePath) ==
  IF IsAbsoluteUrl(sourcePath) THEN Returned(<<sourcePath>>)
  ELSE LET safe == normalizeSourcePath(sourcePath)
           fromDocs == docsBase \o encodePath(safe.value)
           fromRepo == repoBase \o encodePath(safe.value)
           candidates ==
             IF StartsWith(safe.value, <<"d","o","c","s","/">>)
             THEN <<fromDocs, fromRepo, fromRepo>>
             ELSE <<fromDocs, fromRepo>>
       IN IF safe.threw THEN safe
          ELSE Returned(FirstOccurrences(candidates, {}))

(***************************************************************************)
(* Labels and titles.                                                      *)
(***************************************************************************)
\* charAt(0).toUpperCase() + slice(1)
Capitalize(word) ==
  IF word = <<>> THEN <<>> ELSE <<UpperChar(Head(word))>> \o Tail(word)

RECURSIVE CapitalizeEach(_)
CapitalizeEach(words) ==
  IF words = <<>> THEN <<>>
  ELSE <<Capitalize(Head(words))>> \o CapitalizeEach(Tail(words))

\* replace(/[-_]+/g, ' ').trim().split(/\s+/).map(capitalize).join(' '):
\* runs of '-' and '_' are spaces, and the words between spaces are kept.
TitleCaseWords(s) ==
  LET spaced == [i \in DOMAIN s |-> IF s[i] \in {"-", "_"} THEN " " ELSE s[i]]
  IN Join(CapitalizeEach(FilterNonEmpty(Split(spaced, " "))), <<" ">>)

sectionLabel(sectionId) == TitleCaseWords(sectionId)

(***************************************************************************)
(* Documents.  The run reads only these features of a fetched text:        *)
(* whether JSON.parse accepts it and what it then holds (json), and the    *)
(* text of its first level-1 heading, inline markup stripped (heading).    *)
(***************************************************************************)
Text(json, heading) == [json |-> json, heading |-> heading]

MarkdownTitled == Text("not-json", <<"G","u","i","d","e">>)
MarkdownPlain == Text("not-json", <<>>)
JsonScalar == Text("scalar", <<>>)
JsonNoEndpoints == Text("object", <<>>)
JsonEndpoints == Text("endpoints", <<>>)

\* The errors buildApiReferenceMarkdown throws, and the heading of what it returns
\* ('# API Reference'); the endpoint index is not part of this operator.
buildApiReferenceMarkdown(jsonText, sourcePath) ==
  IF jsonText.json = "not-json" THEN Threw("MalformedReference")
  ELSE IF jsonText.json = "scalar" THEN Threw("MalformedReference")
  ELSE IF jsonText.json # "endpoints" THEN Threw("MalformedReference")
  ELSE Returned(Text("not-json",
         <<"A","P","I"," ","R","e","f","e","r","e","n","c","e">>))

titleFromMarkdown(markdown, sourcePath) ==
  LET fileName == IF LastSegment(sourcePath) # <<>> THEN LastSegment(sourcePath) ELSE sourcePath
      nameWithoutExtension == StripExtension(fileName)
      fallback == IF ToLowerCase(nameWithoutExtension) = <<"r","e","a","d","m","e">>
                  THEN <<"H","o","m","e">>
                  ELSE nameWithoutExtension
  IN IF Len(markdown.heading) > 0 THEN markdown.heading ELSE TitleCaseWords(fallback)

(***************************************************************************)
(* The manifest as JSON.parse returns it.  A top value is an object (its   *)
(* members in document order), an array, or a scalar; a member value is a  *)
(* string, an array of strings and scalars, or a scalar.                   *)
(***************************************************************************)
JString(s) == [t |-> "string", s |-> s, items |-> <<>>]
JScalar == [t |-> "scalar", s |-> <<>>, items |-> <<>>]
JArray(items) == [t |-> "array", s |-> <<>>, items |-> items]
JObject(members) == [t |-> "object", members |-> members]
JTopArray(items) == [t |-> "array", members |-> [i \in DOMAIN items |->
                        [key |-> NumberText(i - 1), value |-> items[i]]]]
JTopScalar == [t |-> "scalar", members |-> <<>>]

\* A canonical array index: digits only, no leading zero.
IsIndexKey(key) ==
  /\ key # <<>>
  /\ Range(key) \subseteq DigitChars
  /\ (Head(key) = "0" => Len(key) = 1)

RECURSIVE NumberOf(_)
NumberOf(key) ==
  IF key = <<>> THEN 0
  ELSE LET d == <<"0","1","2","3","4","5","6","7","8","9">>
       IN 10 * NumberOf(SubSeq(key, 1, Len(key) - 1))
            + (CHOOSE n \in 0..9 : d[n + 1] = key[Len(key)])

RECURSIVE SelectMembers(_, _)
SelectMembers(members, indexKeys) ==
  IF members = <<>> THEN <<>>
  ELSE IF IsIndexKey(Head(members).key) = indexKeys
       THEN <<Head(members)>> \o SelectMembers(Tail(members), indexKeys)
       ELSE SelectMembers(Tail(members), indexKeys)

\* Insertion of one member into a list sorted by numeric key.
RECURSIVE InsertByIndex(_, _)
InsertByIndex(m, sorted) ==
  IF sorted = <<>> THEN <<m>>
  ELSE IF NumberOf(m.key) < NumberOf(Head(sorted).key) THEN <<m>> \o sorted
  ELSE <<Head(sorted)>> \o InsertByIndex(m, Tail(sorted))

RECURSIVE SortByIndex(_)
SortByIndex(members) ==
  IF members = <<>> THEN <<>>
  ELSE InsertByIndex(Head(members), SortByIndex(Tail(members)))

\* Object.entries: integer keys in ascending order, then the others in insertion order.
ObjectEntries(config) ==
  SortByIndex(SelectMembers(config.members, TRUE)) \o SelectMembers(config.members, FALSE)

\* Mutant of isValidDocsConfig: the items of a list are not looked at.
isValidDocsConfigShallow(value) ==
  /\ value.t \in {"object", "array"}
  /\ \A i \in DOMAIN value.members : value.members[i].value.t \in {"string", "array"}

isValidDocsConfig(value) ==
  /\ value.t \in {"object", "array"}
  /\ \A i \in DOMAIN value.members :
       LET entry == value.members[i].value
       IN \/ entry.t = "string"
          \/ /\ entry.t = "array"
             /\ \A j \in DOMAIN entry.items : entry.items[j].t = "string"

\* Array.isArray(entries) ? entries : [entries], as source path strings.
EntryList(entries) ==
  IF entries.t = "array" THEN [j \in DOMAIN entries.items |-> entries.items[j].s]
  ELSE <<entries.s>>

(***************************************************************************)
(* Inputs: what the remote can answer.                                     *)
(***************************************************************************)
PathA == <<"a",".","m","d">>
PathDotA == <<".","/","a",".","m","d">>
PathXA == <<"x","/","a",".","m","d">>
PathA2 == <<"a","-","2",".","m","d">>
PathEmpty == <<>>
PathTraversal == <<"x","\\",".",".","\\","s",".","m","d">>
PathSkipped == <<"R","e","f","e","r","e","n","c","e","s","/",
                 "A","P","I","-","r","e","f","e","r","e","n","c","e",".","j","s","o","n">>
PathApi == <<"d","o","c","s","/">> \o ApiReferenceSuffix
PathAbsolute == <<"h","t","t","p","s",":","/","/","h","/","b",".","m","d">>

PathDotSlash == <<"/",".","/">>
PathDotSkipped == <<"/", ".", "/">> \o ApiReferenceSuffix

\* The source paths of the manifests of Spec: spellings of one path, colliding
\* slugs, the skip list, the API reference.
RegistryPaths == {PathA, PathDotA, PathXA, PathA2, PathSkipped, PathApi}

\* The source paths of the manifests of SpecPaths: paths that normalization rejects
\* at once or at its second application, an absolute URL, the API reference.
UnsafePaths == {PathA, PathEmpty, PathTraversal, PathDotSlash, PathAbsolute, PathApi}
\* Paths around the skip list: on it, under a prefix, and behind a leading "/./".
SkipPaths == {PathA, PathSkipped, PathApi, PathDotSkipped}
\* Paths for a build run by two processes: two of them share a base slug.
TwicePaths == {PathA, PathXA, PathA2}

SectionIds == {<<"g","u","i","d","e","s">>, <<"1">>}

\* The statuses the remote answers with in Spec, and in SpecPaths.
Statuses == {200, 404}
ManyStatuses == {200, 404, 500}

\* Mutant of Ok: the status is not looked at.
OkAlways(status) == TRUE

\* Response.ok
Ok(status) == status >= 200 /\ status <= 299

SeqsUpTo(S, n) == UNION {[1..k -> S] : k \in 0..n}

Injective(f) == \A i, j \in DOMAIN f : f[i] = f[j] => i = j

MemberValues(paths) ==
  {JString(p) : p \in paths}
    \cup {JArray(items) : items \in SeqsUpTo({JString(p) : p \in paths}, MaxRefs)}
    \cup {JScalar, JArray(<<JScalar>>)}

\* The number of source path references a member value holds.
Refs(value) == IF value.t = "array" THEN Len(value.items) ELSE 1

RECURSIVE TotalRefs(_)
TotalRefs(values) ==
  IF values = <<>> THEN 0 ELSE Refs(Head(values)) + TotalRefs(Tail(values))

\* The manifests the remote can serve as JSON, and a body JSON.parse rejects.  An
\* object has one member per section id, in any document order.
Manifests(paths) ==
  {JObject([i \in DOMAIN kv[1] |-> [key |-> kv[1][i], value |-> kv[2][i]]]) :
     kv \in
       UNION {{kv \in [1..k -> SectionIds] \X [1..k -> MemberValues(paths)] :
                 Injective(kv[1]) /\ TotalRefs(kv[2]) <= MaxRefs} :
              k \in 0..Cardinality(SectionIds)}}
    \cup {JTopScalar, JTopArray(<<JString(PathA)>>), [t |-> "not-json", members |-> <<>>]}

RegistryManifests == Manifests(RegistryPaths)
SkipManifests == Manifests(SkipPaths)
TwiceManifests == Manifests(TwicePaths)
\* The manifests whose section ids Object.entries leaves in the order of the document.
PlainKeyManifests ==
  {m \in RegistryManifests : \A i \in DOMAIN m.members : ~IsIndexKey(m.members[i].key)}
UnsafeManifests == Manifests(UnsafePaths)

\* The texts the remote can serve at a URL: at a .json URL each shape that
\* buildApiReferenceMarkdown tells apart; elsewhere Markdown, with a heading in the
\* docs folder and without one outside it.
SourceBodies(url) ==
  IF EndsWith(url, <<".","j","s","o","n">>)
  THEN {MarkdownPlain, JsonScalar, JsonNoEndpoints, JsonEndpoints}
  ELSE IF StartsWith(url, DocsBaseUrlOf(DOCS_JSON_URL)) THEN {MarkdownTitled}
  ELSE {MarkdownPlain}

(***************************************************************************)
(* State.                                                                  *)
(***************************************************************************)
VARIABLES
  docsPromise,              \* 0 for undefined, else the number of the cached promise
  markdownProcessorPromise, \* whether the processor promise was created
  started,                  \* how many times loadDocsFromRemote has been called
  handed,                   \* the promise each getDocsData call returned, in call order
  pc,                       \* where the run of loadDocsFromRemote stands
  requests,                 \* every fetch issued: [url, status], status 0 while in flight
  config,                   \* the manifest as parsed; walked when it is valid
  si, ei,                   \* the positions of the two for loops (section, entry)
  seenSlugs,
  sourcePathToPage,         \* the Map, as the sequence of its values in insertion order
  sections,
  sectionItems,
  frame,                    \* the locals of fetchDocFromCandidates
  result,                   \* what the promise of the run resolved to
  failure,                  \* what the promise of the run rejected with
  earlier,                  \* the run of an earlier process: its manifest, responses and DocsData
  reference,                \* the locals of one call of buildApiReferenceMarkdown
  call,                     \* one call of a text function: its argument and what it returned
  document                  \* the html of one page on its way through the three passes

vars ==
  <<docsPromise, markdownProcessorPromise, started, handed, pc, requests, config, si, ei,
    seenSlugs, sourcePathToPage, sections, sectionItems, frame, result, failure, earlier,
    reference, call, document>>

runVars ==
  <<config, si, ei, seenSlugs, sourcePathToPage, sections, sectionItems, frame>>

NoConfig == JObject(<<>>)
NoFrame == [sourcePath |-> NoText, candidates |-> <<>>, index |-> 0, attempts |-> <<>>]
NoResult == [set |-> FALSE, sections |-> <<>>, pages |-> <<>>,
             firstSlug |-> [isNull |-> TRUE, slug |-> NoText],
             name |-> NoText, branch |-> NoText, docsJsonUrl |-> NoText]
NoFailure == [kind |-> "none", sourcePath |-> NoText, attempts |-> <<>>]

Failure(kind, sourcePath, attempts) ==
  [kind |-> kind, sourcePath |-> sourcePath, attempts |-> attempts]

NoEarlier == [set |-> FALSE, config |-> NoConfig, requests |-> <<>>, result |-> NoResult,
              calls |-> 0]

\* The module state of a process that has not been asked for the data.
InitRun ==
  /\ docsPromise = 0
  /\ markdownProcessorPromise = FALSE
  /\ started = 0
  /\ handed = <<>>
  /\ pc = "idle"
  /\ requests = <<>>
  /\ config = NoConfig
  /\ si = 0
  /\ ei = 0
  /\ seenSlugs = {}
  /\ sourcePathToPage = <<>>
  /\ sections = <<>>
  /\ sectionItems = <<>>
  /\ frame = NoFrame
  /\ result = NoResult
  /\ failure = NoFailure
  /\ earlier = NoEarlier

NoOut == [heading |-> NoText, count |-> 0, indexRows |-> <<>>, detailBlocks |-> <<>>]
NoReference ==
  [step |-> "none", doc |-> [t |-> "none", hasArray |-> FALSE, endpoints |-> <<>>],
   endpoints |-> <<>>, sorted |-> <<>>, pathAnchorMap |-> <<>>, out |-> NoOut,
   error |-> "none"]

NoCall == [fn |-> "none", step |-> "none", arg |-> NoText, value |-> NoText]
NoDocument == [step |-> "none", source |-> <<>>, html |-> <<>>, sourceUrl |-> NoText]

Init == InitRun /\ reference = NoReference /\ call = NoCall /\ document = NoDocument

(***************************************************************************)
(* getDocsData.                                                            *)
(***************************************************************************)
\* Mutants of MustLoad: no guard at all, and a guard that retries after a failure.
MustLoadAlways(promise, runState) == TRUE
MustLoadAfterFailure(promise, runState) == promise = 0 \/ runState = "failed"

\* if (!docsPromise): whether the call starts the pipeline.
MustLoad(promise, runState) == promise = 0

\* A call of getDocsData.  When it starts loadDocsFromRemote, the run goes as far as
\* its first await: getMarkdownProcessor() has been called.
getDocsData ==
  /\ Len(handed) < MaxCalls
  /\ IF MustLoad(docsPromise, pc)
     THEN /\ started' = started + 1
          /\ docsPromise' = started + 1
          /\ markdownProcessorPromise' = TRUE
          /\ pc' = "processor"
          /\ requests' = requests
          /\ result' = NoResult
          /\ failure' = NoFailure
          /\ config' = NoConfig
          /\ si' = 0
          /\ ei' = 0
          /\ seenSlugs' = {}
          /\ sourcePathToPage' = <<>>
          /\ sections' = <<>>
          /\ sectionItems' = <<>>
          /\ frame' = NoFrame
     ELSE UNCHANGED <<started, docsPromise, markdownProcessorPromise, pc, requests,
                      result, failure, runVars>>
  /\ handed' = Append(handed, docsPromise')
  /\ UNCHANGED <<earlier, reference, call, document>>

(***************************************************************************)
(* loadDocsFromRemote.  The code between two awaits runs without           *)
(* interruption, so there is one action per resumption of the run: each    *)
(* goes on to the next fetch, or to the end of the run.                    *)
(***************************************************************************)
Issue(log, url) == Append(log, [url |-> url, status |-> 0])

Answer(status) == [requests EXCEPT ![Len(requests)].status = status]

InFlight == {i \in DOMAIN requests : requests[i].status = 0}

\* The locals of loadDocsFromRemote that are fixed once the manifest is loaded.
docsBaseUrl == DocsBaseUrlOf(DOCS_JSON_URL)
repoBaseUrl == buildRepoBaseUrl(DOCS_JSON_URL)

\* Mutant of Lookup: the map is never hit.
LookupMiss(map, sourcePath) == {}

\* sourcePathToPage.get(sourcePath): the pages recorded under that key (none or one).
Lookup(map, sourcePath) == {i \in DOMAIN map : map[i].sourcePath = sourcePath}

Item(page) == [slug |-> page.slug, title |-> page.title, sourcePath |-> page.sourcePath]

\* Mutant of KeepsSection: a section of a single item is not pushed.
KeepsSectionOfSeveral(items) == Len(items) > 1

\* Mutant of KeepsSection: the items being collected are lost once a second caller has
\* asked for the data.
KeepsSectionOfFirstCaller(items) == Len(items) > 0 /\ Len(handed) <= 1

\* Mutant of KeepsSection: every section is pushed.
KeepsSectionAlways(items) == TRUE

\* if (sectionItems.length > 0)
KeepsSection(items) == Len(items) > 0

\* Mutant of NoPages: the empty check is missing.
NoPagesNever(pages) == FALSE

\* if (pages.length === 0)
NoPages(pages) == Len(pages) = 0

RECURSIVE FlatItems(_)
FlatItems(secs) ==
  IF secs = <<>> THEN <<>> ELSE Head(secs).items \o FlatItems(Tail(secs))

\* Mutant of FirstSlug: the first item of the last section is taken.
FirstSlugOfLastSection(secs) ==
  IF FlatItems(secs) = <<>> THEN [isNull |-> TRUE, slug |-> NoText]
  ELSE [isNull |-> FALSE, slug |-> secs[Len(secs)].items[1].slug]

\* sections.flatMap((section) => section.items)[0]?.slug ?? null
FirstSlug(secs) ==
  IF FlatItems(secs) = <<>> THEN [isNull |-> TRUE, slug |-> NoText]
  ELSE [isNull |-> FALSE, slug |-> FlatItems(secs)[1].slug]

\* The locals of the two loops, and where the run stands after running on from them.
Locals(s, e, seen, map, secs, items) ==
  [si |-> s, ei |-> e, seenSlugs |-> seen, sourcePathToPage |-> map, sections |-> secs,
   sectionItems |-> items]

Suspended(l, fr) == [pc |-> "fetch", l |-> l, frame |-> fr, result |-> NoResult,
                     failure |-> NoFailure]
Thrown(l, e) == [pc |-> "failed", l |-> l, frame |-> NoFrame, result |-> NoResult,
                 failure |-> e]
Completed(l, r) == [pc |-> "done", l |-> l, frame |-> NoFrame, result |-> r,
                    failure |-> NoFailure]

\* The lines after the outer loop: the empty check and the returned DocsData.
Finish(l) ==
  IF NoPages(l.sourcePathToPage)
  THEN Thrown(l, Failure("EmptyResult", NoText, <<>>))
  ELSE Completed(l, [set |-> TRUE,
                     name |-> <<"P","i","n","c","h","T","a","b">>,
                     branch |-> DOCS_BRANCH,
                     docsJsonUrl |-> DOCS_JSON_URL,
                     sections |-> l.sections,
                     pages |-> l.sourcePathToPage,
                     firstSlug |-> FirstSlug(l.sections)])

\* The end of the inner loop: the section is pushed when it has items.
EndSection(entries, l) ==
  LET sectionId == entries[l.si].key
  IN Locals(l.si + 1, 1, l.seenSlugs, l.sourcePathToPage,
            IF KeepsSection(l.sectionItems)
            THEN Append(l.sections, [id |-> sectionId, label |-> sectionLabel(sectionId),
                                     items |-> l.sectionItems])
            ELSE l.sections,
            <<>>)

\* The two for loops from the position l on, as far as the next await (the fetch of
\* the first candidate of a source path that has no page yet) or the end of the run.
RECURSIVE Walk(_, _)
Walk(entries, l) ==
  IF l.si > Len(entries) THEN Finish(l)
  ELSE IF l.ei > Len(EntryList(entries[l.si].value)) THEN Walk(entries, EndSection(entries, l))
  ELSE LET rawSourcePath == EntryList(entries[l.si].value)[l.ei]
           normal == normalizeSourcePath(rawSourcePath)
           sourcePath == normal.value
           skipped == isTemporarilySkippedDoc(sourcePath)
           found == Lookup(l.sourcePathToPage, sourcePath)
           resolved == resolveDocSourceCandidates(docsBaseUrl, repoBaseUrl, sourcePath)
       IN IF normal.threw THEN Thrown(l, Failure(normal.error, rawSourcePath, <<>>))
          ELSE IF skipped.threw THEN Thrown(l, Failure(skipped.error, rawSourcePath, <<>>))
          ELSE IF skipped.value THEN Walk(entries, [l EXCEPT !.ei = @ + 1])
          ELSE IF found # {}
          THEN Walk(entries,
                    [l EXCEPT !.ei = @ + 1,
                              !.sectionItems =
                                 Append(@, Item(l.sourcePathToPage[CHOOSE i \in found : TRUE]))])
          ELSE IF resolved.threw
          THEN Thrown(l, Failure(resolved.error, rawSourcePath, <<>>))
          ELSE Suspended(l, [sourcePath |-> sourcePath, candidates |-> resolved.value,
                             index |-> 1, attempts |-> <<>>])

\* The run moves to where `w` says, issuing the request it is suspended on.
Resume(w, log) ==
  /\ pc' = w.pc
  /\ si' = w.l.si
  /\ ei' = w.l.ei
  /\ seenSlugs' = w.l.seenSlugs
  /\ sourcePathToPage' = w.l.sourcePathToPage
  /\ sections' = w.l.sections
  /\ sectionItems' = w.l.sectionItems
  /\ frame' = w.frame
  /\ result' = w.result
  /\ failure' = w.failure
  /\ requests' = IF w.pc = "fetch" THEN Issue(log, w.frame.candidates[1]) ELSE log

Here == Locals(si, ei, seenSlugs, sourcePathToPage, sections, sectionItems)

\* The processor promise resolves; fetchDocsConfig issues the manifest request.
ProcessorReady ==
  /\ pc = "processor"
  /\ pc' = "config"
  /\ requests' = Issue(requests, DOCS_JSON_URL)
  /\ UNCHANGED <<earlier, reference, call, document,
                 docsPromise, markdownProcessorPromise, started,
                 handed, runVars,
                 result, failure>>

\* The manifest request is answered: fetchDocsConfig checks the status, parses and
\* validates; the walk starts and runs to its first fetch.
ConfigResponse(bodies, statuses) ==
  /\ pc = "config"
  /\ \E status \in statuses :
       IF ~Ok(status)
       THEN /\ Resume(Thrown(Here, Failure("ConfigFetch", NoText,
                               <<[url |-> DOCS_JSON_URL, status |-> status]>>)),
                      Answer(status))
            /\ UNCHANGED config
       ELSE \E parsed \in bodies :
              IF parsed.t = "not-json"
              THEN /\ Resume(Thrown(Here, Failure("ConfigParse", NoText, <<>>)), Answer(status))
                   /\ UNCHANGED config
              ELSE IF ~isValidDocsConfig(parsed)
              THEN /\ Resume(Thrown(Here, Failure("ConfigSchema", NoText, <<>>)), Answer(status))
                   /\ config' = parsed
              ELSE /\ config' = parsed
                   /\ Resume(Walk(ObjectEntries(parsed), Locals(1, 1, {}, <<>>, <<>>, <<>>)),
                             Answer(status))
  /\ UNCHANGED <<earlier, reference, call, document,
                 docsPromise, markdownProcessorPromise, started,
                 handed>>

\* attempts.push(`${candidate} -> ${response.status} ${response.statusText}`)
Attempt(candidate, status) == [url |-> candidate, status |-> status]

\* Mutant of HasNextCandidate: the loop ends after its first candidate.
HasNextCandidateNever(index, candidates) == FALSE

\* Whether the for loop of fetchDocFromCandidates has a candidate left after this one.
HasNextCandidate(index, candidates) == index < Len(candidates)

\* A candidate answers with a failure status: the attempt is recorded, and the next
\* candidate is requested or, after the last one, the fetch throws.
CandidateFails(statuses) ==
  /\ pc = "fetch"
  /\ \E status \in statuses :
       /\ ~Ok(status)
       /\ LET candidate == frame.candidates[frame.index]
              attempts == Append(frame.attempts, Attempt(candidate, status))
          IN IF HasNextCandidate(frame.index, frame.candidates)
             THEN /\ frame' = [frame EXCEPT !.index = @ + 1, !.attempts = attempts]
                  /\ requests' = Issue(Answer(status), frame.candidates[frame.index + 1])
                  /\ UNCHANGED <<pc, result, failure>>
             ELSE /\ requests' = Answer(status)
                  /\ frame' = [frame EXCEPT !.attempts = attempts]
                  /\ pc' = "failed"
                  /\ failure' = Failure("SourceFetch", frame.sourcePath, attempts)
                  /\ UNCHANGED result
  /\ UNCHANGED <<earlier, reference, call, document,
                 docsPromise, markdownProcessorPromise, started,
                 handed, config,
                 si, ei, seenSlugs, sourcePathToPage, sections, sectionItems>>

\* A candidate answers with success: the text is normalized, rendered and recorded as
\* a page under its source path, the section gains its item, and the walk goes on.
CandidateSucceeds(statuses) ==
  /\ pc = "fetch"
  /\ \E status \in statuses, rawContent \in SourceBodies(frame.candidates[frame.index]) :
       /\ Ok(status)
       /\ LET sourcePath == frame.sourcePath
              sourceUrl == frame.candidates[frame.index]
              sectionId == ObjectEntries(config)[si].key
              isApi == isApiReferenceJson(sourcePath)
              built == buildApiReferenceMarkdown(rawContent, sourcePath)
              content == IF isApi.value THEN built.value ELSE rawContent
              slug == makeUniqueSlug(slugFromPath(sourcePath), seenSlugs)
              page == [slug |-> slug,
                       title |-> titleFromMarkdown(content, sourcePath),
                       sourcePath |-> sourcePath,
                       sourceUrl |-> sourceUrl,
                       sectionId |-> sectionId,
                       sectionLabel |-> sectionLabel(sectionId),
                       content |-> content,
                       \* what render and the three transforms are applied to
                       html |-> [rendered |-> content, sourceUrl |-> sourceUrl]]
          IN IF isApi.threw
             THEN Resume(Thrown(Here, Failure(isApi.error, sourcePath, <<>>)), Answer(status))
             ELSE IF isApi.value /\ built.threw
             THEN Resume(Thrown(Here, Failure(built.error, sourcePath, <<>>)), Answer(status))
             ELSE Resume(Walk(ObjectEntries(config),
                              Locals(si, ei + 1, seenSlugs \cup {slug},
                                     Append(sourcePathToPage, page), sections,
                                     Append(sectionItems, Item(page)))),
                         Answer(status))
  /\ UNCHANGED <<earlier, reference, call, document,
                 docsPromise, markdownProcessorPromise, started,
                 handed, config>>

Next ==
  \/ getDocsData
  \/ ProcessorReady
  \/ ConfigResponse(RegistryManifests, Statuses)
  \/ CandidateFails(Statuses)
  \/ CandidateSucceeds(Statuses)

Spec == Init /\ [][Next]_vars

\* The same program, served manifests over the source paths of UnsafePaths and
\* answered with two failure statuses.
NextPaths ==
  \/ getDocsData
  \/ ProcessorReady
  \/ ConfigResponse(UnsafeManifests, ManyStatuses)
  \/ CandidateFails(ManyStatuses)
  \/ CandidateSucceeds(ManyStatuses)

SpecPaths == Init /\ [][NextPaths]_vars

\* The same program over manifests whose paths lie around the skip list.
NextSkips ==
  \/ getDocsData
  \/ ProcessorReady
  \/ ConfigResponse(SkipManifests, Statuses)
  \/ CandidateFails(Statuses)
  \/ CandidateSucceeds(Statuses)

SpecSkips == Init /\ [][NextSkips]_vars

\* The same program over manifests without integer-like section ids.
NextPlainKeys ==
  \/ getDocsData
  \/ ProcessorReady
  \/ ConfigResponse(PlainKeyManifests, Statuses)
  \/ CandidateFails(Statuses)
  \/ CandidateSucceeds(Statuses)

SpecPlainKeys == Init /\ [][NextPlainKeys]_vars

(***************************************************************************)
(* Two processes, one after the other, against the same remote: the second *)
(* starts from the initial module state, and a URL the first process had   *)
(* answered is answered to the second with the same status and text.       *)
(***************************************************************************)
\* The process that returned a DocsData ends, and a new process starts.
NewProcess ==
  /\ pc = "done"
  /\ ~earlier.set
  /\ earlier' = [set |-> TRUE, config |-> config, requests |-> requests, result |-> result,
                 calls |-> Len(handed)]
  /\ docsPromise' = 0
  /\ markdownProcessorPromise' = FALSE
  /\ started' = 0
  /\ handed' = <<>>
  /\ pc' = "idle"
  /\ requests' = <<>>
  /\ config' = NoConfig
  /\ si' = 0
  /\ ei' = 0
  /\ seenSlugs' = {}
  /\ sourcePathToPage' = <<>>
  /\ sections' = <<>>
  /\ sectionItems' = <<>>
  /\ frame' = NoFrame
  /\ result' = NoResult
  /\ failure' = NoFailure
  /\ UNCHANGED <<reference, call, document>>

\* The remote has not changed: every URL the earlier process requested is answered
\* now with the status it was answered with then.  (The text at a URL of TwicePaths
\* is fixed by SourceBodies.)
SameRemote ==
  earlier.set =>
    \A r \in DOMAIN requests', q \in DOMAIN earlier.requests :
      (requests'[r].status # 0 /\ requests'[r].url = earlier.requests[q].url)
        => requests'[r].status = earlier.requests[q].status

\* The manifests the remote can serve: any to a first process, the same one again to
\* the second.
ManifestsServed == IF earlier.set THEN {earlier.config} ELSE TwiceManifests

ConfigResponseTwice == ConfigResponse(ManifestsServed, Statuses) /\ SameRemote
CandidateFailsTwice == CandidateFails(Statuses) /\ SameRemote
CandidateSucceedsTwice == CandidateSucceeds(Statuses) /\ SameRemote

NextTwice ==
  \/ getDocsData
  \/ ProcessorReady
  \/ ConfigResponseTwice
  \/ CandidateFailsTwice
  \/ CandidateSucceedsTwice
  \/ NewProcess

SpecTwice == Init /\ [][NextTwice]_vars

(***************************************************************************)
(* buildApiReferenceMarkdown, from the parsed document to the index rows   *)
(* and the detail blocks.  An endpoint is kept with the fields the index   *)
(* and the anchors read: method, path, html and the CLI example.           *)
(***************************************************************************)
\* String.prototype.trim, over texts whose only white space is the blank.
Trim(s) ==
  LET rest == Drop(s, LeadingRun(s, {" "}))
  IN Take(rest, Len(rest) - TrailingRun(rest, {" "}))

ToUpperCase(s) == [i \in DOMAIN s |-> UpperChar(s[i])]

\* String.prototype.localeCompare with the collation of ICU: punctuation sorts before
\* digits and digits before letters, a letter and its capital have the same primary
\* weight, and the lower case letter comes first when the texts differ in case only.
PrimaryOrder ==
  <<" ", "_", "-", "{", "}", "/", "0", "1", "2", "3", "4", "5", "6", "7", "8", "9">>
    \o LowerChars

PrimaryWeight(c) == CHOOSE n \in DOMAIN PrimaryOrder : PrimaryOrder[n] = LowerChar(c)

CaseWeight(c) == IF c \in UpperSet THEN 1 ELSE 0

\* The comparison of two sequences of weights: -1, 0 or 1.
RECURSIVE CompareWeights(_, _)
CompareWeights(a, b) ==
  IF a = <<>> /\ b = <<>> THEN 0
  ELSE IF a = <<>> THEN -1
  ELSE IF b = <<>> THEN 1
  ELSE IF Head(a) < Head(b) THEN -1
  ELSE IF Head(a) > Head(b) THEN 1
  ELSE CompareWeights(Tail(a), Tail(b))

localeCompare(a, b) ==
  LET byPrimary == CompareWeights([i \in DOMAIN a |-> PrimaryWeight(a[i])],
                                  [i \in DOMAIN b |-> PrimaryWeight(b[i])])
  IN IF byPrimary # 0 THEN byPrimary
     ELSE CompareWeights([i \in DOMAIN a |-> CaseWeight(a[i])],
                         [i \in DOMAIN b |-> CaseWeight(b[i])])

\* asNonEmptyString: the trimmed text and whether there is one.
asNonEmptyString(value) ==
  IF value.t # "string" \/ Trim(value.s) = <<>> THEN [isNull |-> TRUE, s |-> NoText]
  ELSE [isNull |-> FALSE, s |-> Trim(value.s)]

\* extractCliExample: the cliExample kept on the endpoint, or null.  (The documents
\* here have no `examples` member.)
extractCliExample(endpoint) == endpoint.cliExample

buildPathAnchor(path) == slugify(path)

\* pathGroupLabel: the first segment of the path, braces removed, in title case.
pathGroupLabel(path) ==
  LET parts == Split(StripLeadingSlashes(path), "/")
      firstPart == IF parts[1] = <<>> THEN <<"r","o","o","t">> ELSE parts[1]
      clean == TitleCaseWords(SelectSeq(firstPart, LAMBDA c : c \notin {"{", "}"}))
  IN IF clean = <<>> THEN <<"R","o","o","t">> ELSE clean

\* An entry of the endpoints array as parsed: an object with its members (html as
\* Boolean(entry.html)), or something that is not an object.
RawEntry(method, path, html, cliExample) ==
  [t |-> "object", method |-> method, path |-> path, html |-> html,
   cliExample |-> cliExample]
NotAnObject == [t |-> "scalar", method |-> JScalar, path |-> JScalar, html |-> FALSE,
                cliExample |-> JScalar]

\* The callback of maybeEndpoints.map: the endpoint, or null.
NormalizeEntry(entry) ==
  IF entry.t # "object" THEN [isNull |-> TRUE]
  ELSE IF entry.method.t # "string" \/ entry.path.t # "string" THEN [isNull |-> TRUE]
  ELSE [isNull |-> FALSE,
        method |-> ToUpperCase(Trim(entry.method.s)),
        path |-> Trim(entry.path.s),
        html |-> entry.html,
        cliExample |-> asNonEmptyString(entry.cliExample)]

\* maybeEndpoints.map(...).filter((entry) => entry !== null)
RECURSIVE NormalizeEndpoints(_)
NormalizeEndpoints(maybeEndpoints) ==
  IF maybeEndpoints = <<>> THEN <<>>
  ELSE (IF NormalizeEntry(Head(maybeEndpoints)).isNull THEN <<>>
        ELSE <<NormalizeEntry(Head(maybeEndpoints))>>)
         \o NormalizeEndpoints(Tail(maybeEndpoints))

\* The comparator of the sort: by path, then by method.
CompareEndpoints(a, b) ==
  LET byPath == localeCompare(a.path, b.path)
  IN IF byPath # 0 THEN byPath ELSE localeCompare(a.method, b.method)

\* Array.prototype.sort is stable: an endpoint goes behind those that do not compare
\* greater than it.
RECURSIVE InsertEndpoint(_, _)
InsertEndpoint(e, sorted) ==
  IF sorted = <<>> THEN <<e>>
  ELSE IF CompareEndpoints(Head(sorted), e) <= 0
       THEN <<Head(sorted)>> \o InsertEndpoint(e, Tail(sorted))
       ELSE <<e>> \o sorted

RECURSIVE SortEndpoints(_)
SortEndpoints(endpoints) ==
  IF endpoints = <<>> THEN <<>>
  ELSE InsertEndpoint(endpoints[Len(endpoints)],
                      SortEndpoints(SubSeq(endpoints, 1, Len(endpoints) - 1)))

\* endpoints.filter((endpoint) => !endpoint.html).sort(...)
SortedEndpoints(endpoints) == SortEndpoints(SelectSeq(endpoints, LAMBDA e : ~e.html))

\* Mutant of AnchorFor: the base anchor is taken as it is.
AnchorForBase(baseAnchor, usedAnchors) == baseAnchor

\* The while loop: the base anchor, or the first of base-2, base-3, ... not used.
AnchorFor(baseAnchor, usedAnchors) ==
  IF baseAnchor \notin usedAnchors THEN baseAnchor
  ELSE Suffixed(baseAnchor, FirstFreeSuffix(baseAnchor, usedAnchors, 2))

\* pathAnchorMap, as the sequence of its entries in insertion order.
AnchorsOf(map) == {map[i].anchor : i \in DOMAIN map}
HasAnchor(map, path) == \E i \in DOMAIN map : map[i].path = path

RECURSIVE AssignAnchors(_, _)
AssignAnchors(sorted, map) ==
  IF sorted = <<>> THEN map
  ELSE IF HasAnchor(map, Head(sorted).path) THEN AssignAnchors(Tail(sorted), map)
  ELSE AssignAnchors(Tail(sorted),
         Append(map, [path |-> Head(sorted).path,
                      anchor |-> AnchorFor(buildPathAnchor(Head(sorted).path),
                                           AnchorsOf(map))]))

\* pathAnchorMap.get(path) || buildPathAnchor(path)
AnchorOf(map, path) ==
  LET found == {i \in DOMAIN map : map[i].path = path}
      anchor == IF found = {} THEN NoText ELSE map[CHOOSE i \in found : TRUE].anchor
  IN IF anchor # NoText THEN anchor ELSE buildPathAnchor(path)

\* The rows of the index: method, path, the anchor linked to and the CLI mark.
IndexRows(sorted, map) ==
  [i \in DOMAIN sorted |->
     [method |-> sorted[i].method,
      path |-> sorted[i].path,
      anchor |-> AnchorOf(map, sorted[i].path),
      cli |-> ~extractCliExample(sorted[i]).isNull]]

\* The grouped map in iteration order: the group labels, the paths of a group, and
\* the endpoints of a path, each in the order of their first endpoint in `sorted`.
GroupLabels(sorted) ==
  FirstOccurrences([i \in DOMAIN sorted |-> pathGroupLabel(sorted[i].path)], {})

GroupPaths(sorted, label) ==
  LET inGroup == SelectSeq(sorted, LAMBDA e : pathGroupLabel(e.path) = label)
  IN FirstOccurrences([i \in DOMAIN inGroup |-> inGroup[i].path], {})

MethodsOf(sorted, path) ==
  LET samePath == SelectSeq(sorted, LAMBDA e : e.path = path)
  IN [i \in DOMAIN samePath |-> samePath[i].method]

\* The detail blocks: per group its label and, per path, the heading, the anchor
\* of '<a id=...>' and the methods below it.
DetailBlocks(sorted, map) ==
  LET labels == GroupLabels(sorted)
  IN [g \in DOMAIN labels |->
        [label |-> labels[g],
         paths |-> LET paths == GroupPaths(sorted, labels[g])
                   IN [k \in DOMAIN paths |->
                         [path |-> paths[k],
                          anchor |-> AnchorOf(map, paths[k]),
                          methods |-> MethodsOf(sorted, paths[k])]]]]

\* Mutant of StatedCount: the endpoints are counted before the html ones are left out.
StatedCountOfAll(endpoints, sorted) == Len(endpoints)

\* `(${sorted.length} endpoints)`
StatedCount(endpoints, sorted) == Len(sorted)

\* What buildApiReferenceMarkdown returns, by its parts.
ReferenceMarkdown(endpoints, sorted, map) ==
  [heading |-> <<"A","P","I"," ","R","e","f","e","r","e","n","c","e">>,
   count |-> StatedCount(endpoints, sorted),
   indexRows |-> IndexRows(sorted, map),
   detailBlocks |-> DetailBlocks(sorted, map)]

\* The parsed documents: a text JSON.parse rejects, a value that is not an object, an
\* array, an object whose `endpoints` is not an array, and an object with endpoints.
Doc(t, hasArray, endpoints) == [t |-> t, hasArray |-> hasArray, endpoints |-> endpoints]

Get == <<"g","e","t">>
GetPadded == <<"G","E","T"," ">>
Post == <<"p","o","s","t">>
Cli == JString(<<"p","t">>)

RawEntries ==
  {RawEntry(JString(Get), JString(<<"/","a">>), FALSE, Cli),
   RawEntry(JString(GetPadded), JString(<<" ","/","a">>), FALSE, JScalar),
   RawEntry(JString(Post), JString(<<"/","a">>), FALSE, JString(<<" ">>)),
   RawEntry(JString(Get), JString(<<"/","A">>), FALSE, JScalar),
   RawEntry(JString(Get), JString(<<"/","{","a","}">>), FALSE, JScalar),
   RawEntry(JString(Get), JString(<<"/","a","-","2">>), FALSE, JScalar),
   RawEntry(JString(Get), JString(<<"/","b">>), TRUE, JScalar),
   RawEntry(JScalar, JString(<<"/","b">>), FALSE, JScalar),
   RawEntry(JString(Get), JScalar, FALSE, JScalar),
   NotAnObject}

ReferenceDocs ==
  {Doc("not-json", FALSE, <<>>), Doc("scalar", FALSE, <<>>), Doc("array", FALSE, <<>>),
   Doc("object", FALSE, <<>>)}
    \cup {Doc("object", TRUE, entries) : entries \in SeqsUpTo(RawEntries, MaxEndpoints)}

Reference(step, doc, endpoints, sorted, map, out) ==
  [step |-> step, doc |-> doc, endpoints |-> endpoints, sorted |-> sorted,
   pathAnchorMap |-> map, out |-> out, error |-> "none"]

\* A call of buildApiReferenceMarkdown on any of the documents.
InitApi ==
  /\ InitRun
  /\ reference \in {Reference("parse", doc, <<>>, <<>>, <<>>, NoOut) : doc \in ReferenceDocs}
  /\ call = NoCall
  /\ document = NoDocument

processVars ==
  <<docsPromise, markdownProcessorPromise, started, handed, pc, requests, config, si, ei,
    seenSlugs, sourcePathToPage, sections, sectionItems, frame, result, failure, earlier>>

\* The error JSON.parse and the two checks of what it returned end in, by the words
\* of its message, or "none".
ReferenceError(doc) ==
  IF doc.t = "not-json" THEN "Invalid JSON"
  ELSE IF doc.t \notin {"object", "array"} THEN "expected JSON object"
  ELSE IF ~doc.hasArray THEN "\"endpoints\" must be an array"
  ELSE "none"

ParseReference ==
  /\ reference.step = "parse"
  /\ reference' =
       [reference EXCEPT !.step = IF ReferenceError(reference.doc) = "none"
                                    THEN "normalize" ELSE "thrown",
                         !.error = ReferenceError(reference.doc)]
  /\ UNCHANGED <<processVars, call, document>>

NormalizeReference ==
  /\ reference.step = "normalize"
  /\ reference' = [reference EXCEPT !.step = "sort",
                                     !.endpoints = NormalizeEndpoints(reference.doc.endpoints)]
  /\ UNCHANGED <<processVars, call, document>>

SortReference ==
  /\ reference.step = "sort"
  /\ reference' = [reference EXCEPT !.step = "anchors",
                                     !.sorted = SortedEndpoints(reference.endpoints)]
  /\ UNCHANGED <<processVars, call, document>>

AnchorReference ==
  /\ reference.step = "anchors"
  /\ reference' = [reference EXCEPT !.step = "render",
                                     !.pathAnchorMap = AssignAnchors(reference.sorted, <<>>)]
  /\ UNCHANGED <<processVars, call, document>>

RenderReference ==
  /\ reference.step = "render"
  /\ reference' = [reference EXCEPT !.step = "returned",
                                     !.out = ReferenceMarkdown(reference.endpoints,
                                                               reference.sorted,
                                                               reference.pathAnchorMap)]
  /\ UNCHANGED <<processVars, call, document>>

NextApi ==
  \/ ParseReference
  \/ NormalizeReference
  \/ SortReference
  \/ AnchorReference
  \/ RenderReference

SpecApi == InitApi /\ [][NextApi]_vars

(***************************************************************************)
(* slugFromPath, called on its own.                                        *)
(***************************************************************************)

\* The segments the paths are joined from; the empty one gives the paths with a
\* leading, a doubled or a trailing slash.
SlugSegments ==
  {<<>>, <<"a">>, <<"b",".","m","d">>, <<"R","E","A","D","M","E",".","m","d">>,
   <<".","m","d">>, <<"-","-">>}

\* The longest path, in segments.
MaxSegments == 3

SlugPaths == {Join(segments, <<"/">>) : segments \in SeqsUpTo(SlugSegments, MaxSegments)}

Call(fn, step, arg, value) == [fn |-> fn, step |-> step, arg |-> arg, value |-> value]

InitSlugs ==
  /\ InitRun
  /\ reference = NoReference
  /\ document = NoDocument
  /\ call \in {Call("slugFromPath", "called", sourcePath, NoText) : sourcePath \in SlugPaths}

SlugFromPath ==
  /\ call.fn = "slugFromPath"
  /\ call.step = "called"
  /\ call' = [call EXCEPT !.step = "returned", !.value = slugFromPath(call.arg)]
  /\ UNCHANGED <<processVars, reference, document>>

NextSlugs == SlugFromPath

SpecSlugs == InitSlugs /\ [][NextSlugs]_vars

(***************************************************************************)
(* escapeHtml and decodeHtmlEntities.                                      *)
(***************************************************************************)

\* String.prototype.replaceAll with a text pattern: left to right, without overlap.
RECURSIVE ReplaceAll(_, _, _)
ReplaceAll(s, pattern, replacement) ==
  IF Len(s) < Len(pattern) THEN s
  ELSE IF StartsWith(s, pattern)
  THEN replacement \o ReplaceAll(Drop(s, Len(pattern)), pattern, replacement)
  ELSE <<Head(s)>> \o ReplaceAll(Tail(s), pattern, replacement)

Amp == <<"&","a","m","p",";">>
Lt == <<"&","l","t",";">>
Gt == <<"&","g","t",";">>
Quot == <<"&","q","u","o","t",";">>
Num39 == <<"&","#","3","9",";">>
Apos == <<"&","a","p","o","s",";">>

escapeHtml(input) ==
  ReplaceAll(ReplaceAll(ReplaceAll(ReplaceAll(ReplaceAll(input,
    <<"&">>, Amp), <<"<">>, Lt), <<">">>, Gt), <<"\"">>, Quot), <<"'">>, Num39)

\* parseInt(digits, radix) for the digits the expressions let through.
HexDigits == <<"0","1","2","3","4","5","6","7","8","9","a","b","c","d","e","f">>
DigitValue(c) ==
  CHOOSE n \in 0..15 : HexDigits[n + 1] = LowerChar(c)

RECURSIVE parseInt(_, _)
parseInt(digits, radix) ==
  IF digits = <<>> THEN 0
  ELSE parseInt(Take(digits, Len(digits) - 1), radix) * radix
         + DigitValue(digits[Len(digits)])

\* String.fromCodePoint for the code points of the characters entities stand for;
\* every other code point is a character outside the texts of the model.
fromCodePoint(n) ==
  IF n = 34 THEN "\""
  ELSE IF n = 38 THEN "&"
  ELSE IF n = 39 THEN "'"
  ELSE IF n = 60 THEN "<"
  ELSE IF n = 62 THEN ">"
  ELSE "other"

\* replace(/&#x([0-9a-fA-F]+);/g, ...) and replace(/&#([0-9]+);/g, ...): `prefix` is
\* what stands before the digits, `digitSet` the digits of the radix.
RECURSIVE DecodeNumeric(_, _, _, _)
DecodeNumeric(s, prefix, digitSet, radix) ==
  LET rest == Drop(s, Len(prefix))
      n == LeadingRun(rest, digitSet)
  IN IF s = <<>> THEN <<>>
     ELSE IF StartsWith(s, prefix) /\ n >= 1 /\ Len(rest) > n /\ rest[n + 1] = ";"
     THEN <<fromCodePoint(parseInt(Take(rest, n), radix))>>
            \o DecodeNumeric(Drop(rest, n + 1), prefix, digitSet, radix)
     ELSE <<Head(s)>> \o DecodeNumeric(Tail(s), prefix, digitSet, radix)

HexDigitSet == DigitChars \cup {"a","b","c","d","e","f","A","B","C","D","E","F"}

\* The two numeric passes, then the six replaceAll calls in the order of the source.
decodeHtmlEntities(input) ==
  LET hex == DecodeNumeric(input, <<"&","#","x">>, HexDigitSet, 16)
      dec == DecodeNumeric(hex, <<"&","#">>, DigitChars, 10)
  IN ReplaceAll(ReplaceAll(ReplaceAll(ReplaceAll(ReplaceAll(ReplaceAll(dec,
       Amp, <<"&">>), Lt, <<"<">>), Gt, <<">">>), Quot, <<"\"">>), Num39, <<"'">>),
       Apos, <<"'">>)

\* The pieces the texts are put together from: the five characters escapeHtml
\* escapes, a letter, and the tails of the entities decodeHtmlEntities knows.
TextPieces ==
  {<<"&">>, <<"<">>, <<">">>, <<"\"">>, <<"'">>, <<"a">>,
   Tail(Amp), Tail(Lt), Tail(Gt), Tail(Quot), Tail(Num39), Tail(Apos),
   <<"#","x","2","7",";">>}

\* The longest text, in pieces.
MaxPieces == 3

RECURSIVE Concat(_)
Concat(pieces) == IF pieces = <<>> THEN <<>> ELSE Head(pieces) \o Concat(Tail(pieces))

Texts == {Concat(pieces) : pieces \in SeqsUpTo(TextPieces, MaxPieces)}

\* One round trip: a text is escaped and the escaped text is decoded.
InitEntities ==
  /\ InitRun
  /\ reference = NoReference
  /\ document = NoDocument
  /\ call \in {Call("escapeHtml", "called", s, NoText) : s \in Texts}

EscapeHtml ==
  /\ call.fn = "escapeHtml"
  /\ call.step = "called"
  /\ call' = [call EXCEPT !.step = "escaped", !.value = escapeHtml(call.arg)]
  /\ UNCHANGED <<processVars, reference, document>>

DecodeHtmlEntities ==
  /\ call.fn = "escapeHtml"
  /\ call.step = "escaped"
  /\ call' = [call EXCEPT !.step = "decoded", !.value = decodeHtmlEntities(call.value)]
  /\ UNCHANGED <<processVars, reference, document>>

NextEntities == EscapeHtml \/ DecodeHtmlEntities

SpecEntities == InitEntities /\ [][NextEntities]_vars

(***************************************************************************)
(* The HTML post-processor.  The html of a page is the sequence of its      *)
(* nodes: a <pre><code> block, a table, or any other markup as its text.    *)
(* A pass replaces the nodes its expression matches and keeps the rest.     *)
(***************************************************************************)

\* \s of the regular expressions, over the white space of the texts.
WhiteSpace == {" ", "\n", "\r", "\t"}

TrimStart(s) == Drop(s, LeadingRun(s, WhiteSpace))
\* replace(/\s+$/, '')
TrimEnd(s) == Take(s, Len(s) - TrailingRun(s, WhiteSpace))
\* String.prototype.trim
TrimWhite(s) == TrimEnd(TrimStart(s))

\* replace(/\r\n/g, '\n')
NormalizeNewlines(s) == ReplaceAll(s, <<"\r", "\n">>, <<"\n">>)

\* \w of the regular expressions.
WordChars == LowerSet \cup UpperSet \cup DigitChars \cup {"_"}

\* The characters of [┌┐└┘├┤┬┴┼│─═╔╗╚╝║] and of [↓↑←→], each written as its code point.
BoxChars ==
  {"U+250C", "U+2510", "U+2514", "U+2518", "U+251C", "U+2524", "U+252C", "U+2534",
   "U+253C", "U+2502", "U+2500", "U+2550", "U+2554", "U+2557", "U+255A", "U+255D",
   "U+2551"}
ArrowChars == {"U+2193", "U+2191", "U+2190", "U+2192"}
\* isDiagramConnector adds ┆┄┈┉┊┋╭╮╯╰
ConnectorChars ==
  BoxChars \cup ArrowChars
    \cup {"U+2506", "U+2504", "U+2508", "U+2509", "U+250A", "U+250B",
          "U+256D", "U+256E", "U+256F", "U+2570"}

CountOf(s, chars) == Cardinality({i \in DOMAIN s : s[i] \in chars})

CommandWords ==
  {<<"c","u","r","l">>, <<"n","p","m">>, <<"p","n","p","m">>, <<"b","u","n">>,
   <<"n","o","d","e">>, <<"g","o">>, <<"g","i","t">>, <<"d","o","c","k","e","r">>,
   <<"k","u","b","e","c","t","l">>, <<"p","y","t","h","o","n">>, <<"p","i","p">>,
   <<"c","d">>, <<"l","s">>, <<"c","p">>, <<"m","v">>, <<"r","m">>, <<"c","a","t">>,
   <<"e","c","h","o">>, <<"e","x","p","o","r","t">>, <<"s","u","d","o">>}

\* /^\s*(curl|npm|...|sudo)\b/i
CommandLike(line) ==
  LET rest == TrimStart(line)
  IN \E word \in CommandWords :
       /\ StartsWith(ToLowerCase(rest), word)
       /\ Len(rest) = Len(word) \/ rest[Len(word) + 1] \notin WordChars

looksLikeAsciiDiagram(rawCode) ==
  LET normalizedCode == TrimWhite(NormalizeNewlines(rawCode))
      lines == Split(normalizedCode, "\n")
  IN IF Len(lines) < 4 THEN FALSE
     ELSE /\ CountOf(normalizedCode, BoxChars) >= 6 \/ CountOf(normalizedCode, ArrowChars) >= 2
          /\ \A i \in DOMAIN lines : ~CommandLike(lines[i])

\* [a-z0-9_-] under the flag i
LanguageChars == LowerSet \cup UpperSet \cup DigitChars \cup {"_", "-"}

\* A match of /\b<prefix>["']?([a-z0-9_-]+)/i at position i of attrs, the quote being
\* looked for when quoted is TRUE: whether it matches, and what it captures.
LanguageAt(attrs, i, prefix, quoted) ==
  LET tail == Drop(attrs, i - 1)
      after == Drop(tail, Len(prefix))
      name == IF quoted /\ after # <<>> /\ Head(after) \in {"\"", "'"}
              THEN Tail(after) ELSE after
  IN [ok |-> /\ StartsWith(ToLowerCase(tail), prefix)
             /\ i = 1 \/ attrs[i - 1] \notin WordChars
             /\ LeadingRun(name, LanguageChars) >= 1,
      value |-> Take(name, LeadingRun(name, LanguageChars))]

\* String.prototype.match: the capture of the leftmost match, or the empty text.
LanguageMatch(attrs, prefix, quoted) ==
  LET hits == {i \in DOMAIN attrs : LanguageAt(attrs, i, prefix, quoted).ok}
  IN IF hits = {} THEN NoText
     ELSE LanguageAt(attrs, CHOOSE i \in hits : \A j \in hits : i <= j, prefix, quoted).value

\* The language in lower case, or the empty text for null.
extractCodeLanguage(preAttrs, codeAttrs) ==
  LET attrs == codeAttrs \o <<" ">> \o preAttrs
      byClass == LanguageMatch(attrs, <<"l","a","n","g","u","a","g","e","-">>, FALSE)
      byData == LanguageMatch(attrs,
                  <<"d","a","t","a","-","l","a","n","g","u","a","g","e","=">>, TRUE)
  IN ToLowerCase(IF byClass # NoText THEN byClass ELSE byData)

isShellLanguage(language) ==
  language \in {<<"b","a","s","h">>, <<"s","h">>, <<"z","s","h">>,
                <<"s","h","e","l","l">>, <<"c","o","n","s","o","l","e">>}

isJsonLanguage(language) ==
  language \in {<<"j","s","o","n">>, <<"j","s","o","n","c">>,
                <<"g","e","o","j","s","o","n">>}

\* The terminal markup, by its lines: the data-is-comment attribute and the text of
\* the span.
renderDocsTerminalCode(rawCode) ==
  LET lines == Split(TrimEnd(NormalizeNewlines(rawCode)), "\n")
  IN [kind |-> "terminal",
      lines |-> [i \in DOMAIN lines |->
                   [isComment |-> StartsWith(TrimWhite(lines[i]), <<"#">>),
                    html |-> escapeHtml(lines[i])]]]

\* A blank line is a spacer; of any other line every character has its role.
renderDiagramLine(line) ==
  IF TrimWhite(line) = <<>> THEN [spacer |-> TRUE, chars |-> <<>>]
  ELSE [spacer |-> FALSE,
        chars |-> [i \in DOMAIN line |->
                     IF line[i] = " " THEN [role |-> "space", html |-> <<" ">>]
                     ELSE IF line[i] \in ConnectorChars
                     THEN [role |-> "connector", html |-> escapeHtml(<<line[i]>>)]
                     ELSE [role |-> "text", html |-> escapeHtml(<<line[i]>>)]]]

renderDocsDiagramCode(rawCode) ==
  LET lines == Split(TrimEnd(NormalizeNewlines(rawCode)), "\n")
  IN [kind |-> "diagram", lines |-> [i \in DOMAIN lines |-> renderDiagramLine(lines[i])]]

\* The JSON markup, by the text handed to JSON.parse; the pretty printing and the
\* colours of the tokens are not modelled.
renderDocsJsonCode(rawCode) ==
  [kind |-> "json", code |-> TrimWhite(NormalizeNewlines(rawCode))]

Pre(preAttrs, codeAttrs, codeInner) ==
  [kind |-> "pre", preAttrs |-> preAttrs, codeAttrs |-> codeAttrs, codeInner |-> codeInner]

\* Mutant of CodeBlock: the language is looked at before the diagram.
CodeBlockByLanguage(full) ==
  LET language == extractCodeLanguage(full.preAttrs, full.codeAttrs)
      decoded == decodeHtmlEntities(full.codeInner)
  IN IF isShellLanguage(language) THEN renderDocsTerminalCode(decoded)
     ELSE IF isJsonLanguage(language) THEN renderDocsJsonCode(decoded)
     ELSE IF looksLikeAsciiDiagram(decoded) THEN renderDocsDiagramCode(decoded)
     ELSE full

\* The callback of the replace in transformDocsCodeBlocks.
CodeBlock(full) ==
  LET language == extractCodeLanguage(full.preAttrs, full.codeAttrs)
      decoded == decodeHtmlEntities(full.codeInner)
  IN IF looksLikeAsciiDiagram(decoded) THEN renderDocsDiagramCode(decoded)
     ELSE IF isShellLanguage(language) THEN renderDocsTerminalCode(decoded)
     ELSE IF isJsonLanguage(language) THEN renderDocsJsonCode(decoded)
     ELSE full

transformDocsCodeBlocks(html) ==
  [i \in DOMAIN html |-> IF html[i].kind = "pre" THEN CodeBlock(html[i]) ELSE html[i]]

\* replace(/<[^>]*>/g, ''): a '<' without a '>' after it stays.
RECURSIVE RemoveTags(_)
RemoveTags(s) ==
  IF s = <<>> THEN <<>>
  ELSE IF Head(s) = "<" /\ \E i \in DOMAIN s : s[i] = ">"
  THEN RemoveTags(Drop(s, CHOOSE i \in DOMAIN s : s[i] = ">" /\ \A j \in 1..(i - 1) : s[j] # ">"))
  ELSE <<Head(s)>> \o RemoveTags(Tail(s))

stripHtmlTags(input) == TrimWhite(decodeHtmlEntities(RemoveTags(input)))

\* RegExp.prototype.test of a plain word: the text holds the word somewhere.
Contains(s, word) == \E i \in 1..(Len(s) + 1) : StartsWith(Drop(s, i - 1), word)

\* The class list of the badge, by its colour.
methodBadgeClass(method) ==
  IF method = <<"G","E","T">> THEN "green"
  ELSE IF method = <<"P","O","S","T">> THEN "accent"
  ELSE IF method \in {<<"P","U","T">>, <<"P","A","T","C","H">>} THEN "blue"
  ELSE IF method = <<"D","E","L","E","T","E">> THEN "red"
  ELSE "neutral"

\* A cell of a table: the attributes of its tag and the html inside it.
Cell(attrs, inner) == [attrs |-> attrs, inner |-> inner]

\* What a restyled cell holds: html kept as it was, a method badge, an endpoint chip
\* with the href of its link (empty without a link), or a check or cross chip.
Content(form, class, text, href) ==
  [form |-> form, class |-> class, text |-> text, href |-> href]
RawContent(html) == Content("raw", "", html, NoText)

\* content.match(/href="([^"]+)"/i): the capture of the leftmost match, or empty.
HrefAt(content, i) ==
  LET tail == Drop(content, i - 1)
      after == Drop(tail, 6)
      n == LeadingRun(after, Range(after) \ {"\""})
  IN [ok |-> /\ StartsWith(ToLowerCase(tail), <<"h","r","e","f","=","\"">>)
             /\ n >= 1
             /\ Len(after) > n,
      value |-> Take(after, n)]

HrefMatch(content) ==
  LET hits == {i \in DOMAIN content : HrefAt(content, i).ok}
  IN IF hits = {} THEN NoText
     ELSE HrefAt(content, CHOOSE i \in hits : \A j \in hits : i <= j).value

CheckMark == "U+2713"

\* The body of the callback of styleTableRowCells for the cell with index cellIndex.
StyledCellContent(rawCell, isApiTable, cellIndex) ==
  LET content == TrimWhite(rawCell)
      text == stripHtmlTags(content)
      value == ToUpperCase(text)
  IN IF isApiTable /\ cellIndex = 0
     THEN Content("badge", methodBadgeClass(value), escapeHtml(value), NoText)
     ELSE IF isApiTable /\ cellIndex = 1
     THEN (IF Len(text) > 0
           THEN Content("chip", "", escapeHtml(text),
                        ReplaceAll(HrefMatch(content), <<"\"">>, Quot))
           ELSE RawContent(content))
     ELSE IF isApiTable /\ cellIndex = 2
     THEN (IF value = <<"X">> THEN Content("cross", "red", <<"X">>, NoText)
           ELSE IF value \in {<<CheckMark>>, <<"Y","E","S">>, <<"T","R","U","E">>}
           THEN Content("check", "green", <<CheckMark>>, NoText)
           ELSE RawContent(content))
     ELSE RawContent(content)

\* The expressions match <th> and <td> without attributes only: any other cell stays
\* as it is and is not counted.
Matched(cell) == cell.attrs = <<>>

\* rowHtml.replace(/<td>([\s\S]*?)<\/td>/gi, ...): cellIndex counts the cells matched
\* before.
styleTableRowCells(row, isApiTable) ==
  [i \in DOMAIN row |->
     IF Matched(row[i])
     THEN [styled |-> TRUE, attrs |-> row[i].attrs,
           content |-> StyledCellContent(row[i].inner, isApiTable,
                         Cardinality({j \in 1..(i - 1) : Matched(row[j])}))]
     ELSE [styled |-> FALSE, attrs |-> row[i].attrs, content |-> RawContent(row[i].inner)]]

\* The headers the matchAll finds, tags stripped and in lower case.
Headers(head) ==
  LET matched == SelectSeq(head, Matched)
  IN [i \in DOMAIN matched |-> ToLowerCase(stripHtmlTags(matched[i].inner))]

\* Mutant of IsApiTable: the second header is not looked at.
IsApiTableByMethod(head) ==
  /\ Len(Headers(head)) >= 2
  /\ Contains(Headers(head)[1], <<"m","e","t","h","o","d">>)

IsApiTable(head) ==
  /\ Len(Headers(head)) >= 2
  /\ Contains(Headers(head)[1], <<"m","e","t","h","o","d">>)
  /\ \/ Contains(Headers(head)[2], <<"e","n","d","p","o","i","n","t">>)
     \/ Contains(Headers(head)[2], <<"p","a","t","h">>)

\* The callback of the replace in transformDocsTables.
StyledTable(table) ==
  [kind |-> "styledTable",
   isApiTable |-> IsApiTable(table.head),
   head |-> [i \in DOMAIN table.head |->
               IF Matched(table.head[i])
               THEN [styled |-> TRUE, attrs |-> table.head[i].attrs,
                     content |-> RawContent(TrimWhite(table.head[i].inner))]
               ELSE [styled |-> FALSE, attrs |-> table.head[i].attrs,
                     content |-> RawContent(table.head[i].inner)]],
   rows |-> [r \in DOMAIN table.rows |->
               styleTableRowCells(table.rows[r], IsApiTable(table.head))]]

transformDocsTables(html) ==
  [i \in DOMAIN html |-> IF html[i].kind = "table" THEN StyledTable(html[i]) ELSE html[i]]

\* /^(?:[a-z][a-z0-9+.-]*:|\/\/)/i
SchemeChars == LowerSet \cup UpperSet \cup DigitChars \cup {"+", ".", "-"}
HasScheme(url) ==
  LET n == LeadingRun(url, SchemeChars)
  IN \/ /\ url # <<>>
        /\ Head(url) \in LowerSet \cup UpperSet
        /\ Len(url) > n
        /\ url[n + 1] = ":"
     \/ StartsWith(url, <<"/", "/">>)

shouldResolveRelativeAssetUrl(url) ==
  LET normalized == TrimWhite(url)
  IN /\ Len(normalized) # 0
     /\ ~StartsWith(normalized, <<"/">>)
     /\ ~StartsWith(normalized, <<"#">>)
     /\ ~HasScheme(normalized)

\* The directory of a URL: the URL up to its last slash.
Directory(url) == Take(url, Len(url) - TrailingRun(url, Range(url) \ {"/"}))

\* The directory above a directory; the root, which the origin alone precedes, is its
\* own parent.
Parent(directory) ==
  LET above == Directory(Take(directory, Len(directory) - 1))
  IN IF above = <<>> THEN directory ELSE above

\* The path of a relative reference, segment by segment, from a directory: '.' stays,
\* '..' goes up, any other segment goes down or, as the last one, names the file.
RECURSIVE FromDirectory(_, _)
FromDirectory(directory, segments) ==
  IF segments = <<>> THEN directory
  ELSE LET segment == Head(segments)
           last == Len(segments) = 1
       IN IF segment = <<".">> THEN FromDirectory(directory, Tail(segments))
          ELSE IF segment = <<".", ".">> THEN FromDirectory(Parent(directory), Tail(segments))
          ELSE IF last THEN directory \o segment
          ELSE FromDirectory(directory \o segment \o <<"/">>, Tail(segments))

\* new URL(url, sourceUrl).toString() for a relative reference without query and
\* fragment: white space around it is dropped, a blank inside it is written %20.
ResolvedUrl(url, sourceUrl) ==
  ReplaceAll(FromDirectory(Directory(sourceUrl), Split(TrimWhite(url), "/")),
             <<" ">>, <<"%", "2", "0">>)

\* The constructor does not throw for a relative reference and the base of a page
\* fetched, so the catch is not taken.
resolveAssetUrl(url, sourceUrl) ==
  IF ~shouldResolveRelativeAssetUrl(url) THEN url ELSE ResolvedUrl(url, sourceUrl)

\* String.prototype.replace with a text pattern: the first occurrence only.  The
\* texts hold no '$', so the replacement is taken as it is.
RECURSIVE ReplaceFirst(_, _, _)
ReplaceFirst(s, pattern, replacement) ==
  IF Len(s) < Len(pattern) THEN s
  ELSE IF StartsWith(s, pattern) THEN replacement \o Drop(s, Len(pattern))
  ELSE <<Head(s)>> \o ReplaceFirst(Tail(s), pattern, replacement)

\* A match of /\bsrc=(["'])([^"']+)\1/i at position i of the tag.
SrcAt(imgTag, i) ==
  LET tail == Drop(imgTag, i - 1)
      after == Drop(tail, 5)
      n == LeadingRun(after, Range(after) \ {"\"", "'"})
  IN [ok |-> /\ StartsWith(ToLowerCase(tail), <<"s","r","c","=">>)
             /\ i = 1 \/ imgTag[i - 1] \notin WordChars
             /\ Len(tail) >= 5
             /\ tail[5] \in {"\"", "'"}
             /\ n >= 1
             /\ Len(after) > n
             /\ after[n + 1] = tail[5],
      whole |-> Take(tail, n + 6),
      src |-> Take(after, n)]

\* The callback of the replace in transformDocsImageSources.
ImgTag(imgTag, sourceUrl) ==
  LET hits == {i \in DOMAIN imgTag : SrcAt(imgTag, i).ok}
      srcMatch == SrcAt(imgTag, CHOOSE i \in hits : \A j \in hits : i <= j)
      resolvedSrc == resolveAssetUrl(srcMatch.src, sourceUrl)
  IN IF hits = {} THEN imgTag
     ELSE IF resolvedSrc = srcMatch.src THEN imgTag
     ELSE ReplaceFirst(imgTag, srcMatch.whole,
                       <<"s","r","c","=","\"">> \o resolvedSrc \o <<"\"">>)

\* html.replace(/<img\b[^>]*>/gi, ...) over a text.
RECURSIVE ImagesIn(_, _)
ImagesIn(s, sourceUrl) ==
  IF s = <<>> THEN <<>>
  ELSE LET closes == {i \in DOMAIN s : s[i] = ">"}
           end == CHOOSE i \in closes : \A j \in closes : i <= j
       IN IF /\ StartsWith(ToLowerCase(s), <<"<","i","m","g">>)
             /\ Len(s) > 4
             /\ s[5] \notin WordChars
             /\ closes # {}
          THEN ImgTag(Take(s, end), sourceUrl) \o ImagesIn(Drop(s, end), sourceUrl)
          ELSE <<Head(s)>> \o ImagesIn(Tail(s), sourceUrl)

\* The pass over a cell: markup made by the table pass holds no <img>, html kept as it
\* was may.
ImagesInCell(cell, sourceUrl) ==
  IF cell.content.form = "raw"
  THEN [cell EXCEPT !.content.text = ImagesIn(cell.content.text, sourceUrl)]
  ELSE cell

\* The pass over a node: the text of a code block is escaped, in the block as the
\* renderer made it and in the markup of the code pass, and holds no '<'.
ImagesInNode(node, sourceUrl) ==
  IF node.kind = "text" THEN [node EXCEPT !.html = ImagesIn(node.html, sourceUrl)]
  ELSE IF node.kind = "styledTable"
  THEN [node EXCEPT
          !.head = [i \in DOMAIN node.head |-> ImagesInCell(node.head[i], sourceUrl)],
          !.rows = [r \in DOMAIN node.rows |->
                      [i \in DOMAIN node.rows[r] |->
                         ImagesInCell(node.rows[r][i], sourceUrl)]]]
  ELSE node

transformDocsImageSources(html, sourceUrl) ==
  [i \in DOMAIN html |-> ImagesInNode(html[i], sourceUrl)]

(***************************************************************************)
(* The pages the post-processor is run on.  A page is authored as a        *)
(* sequence of blocks: a fenced or hand-written code block, a table, or a  *)
(* paragraph holding one image.  The markdown renderer, which is not code  *)
(* of this repository, turns each block into a node of the html.           *)
(***************************************************************************)

Chars(lines) == Join(lines, <<"\n">>)

\* The lines code blocks are made of: a box line, an arrow line, a command, a
\* comment, a blank line and a line of text holding an entity.
CodeLines ==
  {<<"U+250C", "U+2500", "U+2510">>,
   <<"a", " ", "U+2192", " ", "b">>,
   <<" ", " ", "C", "u", "r", "l", " ", "x">>,
   <<" ", "#", " ", "c">>,
   <<>>,
   <<"c", "u", "r", "l", "y", " ", "&", "l", "t", ";">>}

MaxLines == 4

CodeTexts == {Chars(lines) : lines \in SeqsUpTo(CodeLines, MaxLines) \ {<<>>}}

\* How a block names its language: the info string of a fence (a class on <code>),
\* a data-language attribute on a hand-written <pre>, or not at all.
Fences ==
  {[style |-> "class", fence |-> <<"b","a","s","h">>],
   [style |-> "class", fence |-> <<"J","S","O","N">>],
   [style |-> "class", fence |-> <<"j","s">>],
   [style |-> "class", fence |-> <<"s","h","e","l","l","-","s","e","s","s","i","o","n">>],
   [style |-> "data", fence |-> <<"s","h">>],
   [style |-> "none", fence |-> <<>>]}

CodeSources ==
  {[kind |-> "code", style |-> f.style, fence |-> f.fence, text |-> text] :
     f \in Fences, text \in CodeTexts}

Align == <<" ","a","l","i","g","n","=","\"","l","e","f","t","\"">>

HeaderCells ==
  {Cell(<<>>, <<"M","e","t","h","o","d">>),
   Cell(<<>>, <<" ","P","A","T","H"," ">>),
   Cell(<<>>, <<"<","b",">","E","n","d","p","o","i","n","t","<","/","b",">">>),
   Cell(<<>>, <<"H","T","T","P"," ","M","e","t","h","o","d","s">>),
   Cell(<<>>, <<"N","a","m","e">>),
   Cell(<<>>, <<"P","a","t","h","o","l","o","g","y">>),
   Cell(Align, <<"M","e","t","h","o","d">>),
   Cell(Align, <<"P","a","t","h">>)}

Heads ==
  {<<h>> : h \in HeaderCells}
    \cup {<<h1, h2, Cell(<<>>, <<"C","L","I">>)>> : h1 \in HeaderCells, h2 \in HeaderCells}

MethodCells ==
  {Cell(<<>>, <<"G","E","T">>),
   Cell(<<>>, <<" ","p","o","s","t"," ">>),
   Cell(<<>>, <<"P","U","T">>),
   Cell(<<>>, <<"<","c","o","d","e",">","D","E","L","E","T","E","<","/","c","o","d","e",">">>),
   Cell(<<>>, <<"T","r","a","c","e">>),
   Cell(Align, <<"G","e","t">>)}

EndpointCells ==
  {Cell(<<>>, <<"/","h","e","a","l","t","h">>),
   Cell(<<>>, <<"<","a"," ","h","r","e","f","=","\"","x","\"",">","/","h","<","/","a",">">>),
   Cell(<<>>, <<>>)}

FlagCells ==
  {Cell(<<>>, <<CheckMark>>), Cell(<<>>, <<"x">>), Cell(<<>>, <<"Y","e","s">>),
   Cell(<<>>, <<"n","o">>)}

TableSources ==
  {[kind |-> "table", head |-> head, rows |-> <<<<c0, c1, c2>>>>] :
     head \in Heads, c0 \in MethodCells, c1 \in EndpointCells, c2 \in FlagCells}

\* The sources of images: relative ones and ones that are not.
Sources ==
  {<<"a",".","p","n","g">>,
   <<".","/","a",".","p","n","g">>,
   <<".",".","/","i","m","g","/","a",".","p","n","g">>,
   <<" ","a",".","p","n","g">>,
   <<"/","a",".","p","n","g">>,
   <<"/","/","h","/","a",".","p","n","g">>,
   <<"h","t","t","p","s",":","/","/","h","/","a",".","p","n","g">>,
   <<"H","T","T","P",":","/","/","h","/","a",".","p","n","g">>,
   <<"d","a","t","a",":","x">>,
   <<"#","a">>,
   <<" ">>,
   <<>>}

\* The ways an image is written: src in double or single quotes, the tag in upper
\* case, src without quotes, src after a data-src attribute, no src at all, and an
\* <image> element, which is not an <img> tag.
ImageForms == {"double", "single", "upper", "unquoted", "lazy", "none", "image"}

ImageSources ==
  {[kind |-> "image", form |-> form, src |-> src] : form \in ImageForms, src \in Sources}

\* The tag of an image with its src attribute written as name, quote, value.
Tag(form, name, quote, value) ==
  LET attr == name \o <<"=">> \o quote \o value \o quote
      alt == <<"a","l","t","=","\"","x","\"">>
      lazy == <<"d","a","t","a","-","s","r","c","=","\"","l",".","p","n","g","\"">>
  IN IF form = "double" THEN <<"<","i","m","g"," ">> \o attr \o <<" ">> \o alt \o <<">">>
     ELSE IF form = "single" THEN <<"<","i","m","g"," ">> \o alt \o <<" ">> \o attr \o <<">">>
     ELSE IF form = "upper" THEN <<"<","I","M","G"," ">> \o attr \o <<">">>
     ELSE IF form = "unquoted" THEN <<"<","i","m","g"," ">> \o attr \o <<">">>
     ELSE IF form = "lazy" THEN <<"<","i","m","g"," ">> \o lazy \o <<" ">> \o attr \o <<">">>
     ELSE IF form = "none" THEN <<"<","i","m","g"," ">> \o alt \o <<">">>
     ELSE <<"<","i","m","a","g","e"," ">> \o attr \o <<">">>

SrcName(form) == IF form = "upper" THEN <<"S","R","C">> ELSE <<"s","r","c">>
SrcQuote(form) ==
  IF form = "single" THEN <<"'">> ELSE IF form = "unquoted" THEN <<>> ELSE <<"\"">>

Paragraph(tag) == <<"<","p",">">> \o tag \o <<"<","/","p",">">>

\* The renderer escapes '&' and '<' in the text of a code block.
RenderedCode(text) == ReplaceAll(ReplaceAll(text, <<"&">>, Amp), <<"<">>, Lt)

\* The node the renderer makes of a block.
Rendered(block) ==
  IF block.kind = "code"
  THEN Pre(IF block.style = "data"
           THEN <<" ","d","a","t","a","-","l","a","n","g","u","a","g","e","=","\"">>
                  \o block.fence \o <<"\"">>
           ELSE <<>>,
           IF block.style = "class"
           THEN <<" ","c","l","a","s","s","=","\"","l","a","n","g","u","a","g","e","-">>
                  \o block.fence \o <<"\"">>
           ELSE <<>>,
           RenderedCode(block.text))
  ELSE IF block.kind = "table"
  THEN [kind |-> "table", head |-> block.head, rows |-> block.rows]
  ELSE [kind |-> "text",
        html |-> Paragraph(Tag(block.form, SrcName(block.form), SrcQuote(block.form),
                               block.src))]

\* The URLs pages are fetched from: one under the docs directory, one at the root of
\* the repository.
SourceUrls ==
  {docsBaseUrl \o <<"g","u","i","d","e","/","a",".","m","d">>,
   repoBaseUrl \o <<"R","E","A","D","M","E",".","m","d">>}

Documents ==
  {[step |-> "rendered", source |-> <<block>>, html |-> <<Rendered(block)>>,
    sourceUrl |-> sourceUrl] :
     block \in CodeSources \cup TableSources \cup ImageSources, sourceUrl \in SourceUrls}

InitHtml ==
  /\ InitRun
  /\ reference = NoReference
  /\ call = NoCall
  /\ document \in Documents

\* docs.ts:882-885, innermost call first.
TransformDocsCodeBlocks ==
  /\ document.step = "rendered"
  /\ document' = [document EXCEPT !.step = "code",
                                  !.html = transformDocsCodeBlocks(document.html)]
  /\ UNCHANGED <<processVars, reference, call>>

TransformDocsTables ==
  /\ document.step = "code"
  /\ document' = [document EXCEPT !.step = "tables",
                                  !.html = transformDocsTables(document.html)]
  /\ UNCHANGED <<processVars, reference, call>>

TransformDocsImageSources ==
  /\ document.step = "tables"
  /\ document' = [document EXCEPT
                    !.step = "images",
                    !.html = transformDocsImageSources(document.html, document.sourceUrl)]
  /\ UNCHANGED <<processVars, reference, call>>

NextHtml == TransformDocsCodeBlocks \/ TransformDocsTables \/ TransformDocsImageSources

SpecHtml == InitHtml /\ [][NextHtml]_vars

(***************************************************************************)
(* Properties.                                                             *)
(***************************************************************************)
SuccessStatus(status) == status \in 200..299
FailureStatus(status) == status # 0 /\ status \notin 200..299

ManifestRequests == {i \in DOMAIN requests : requests[i].url = DOCS_JSON_URL}

\* C1: however many getDocsData calls are made and whenever they are made, the
\* pipeline is started at most once and every call returns the one promise of that
\* run; once the run has completed, its DocsData never changes and no further
\* request is issued.
C1_SingleSharedLoad ==
  /\ [](/\ started <= 1
        /\ \A i \in DOMAIN handed : handed[i] = 1
        /\ Cardinality(ManifestRequests) <= 1
        /\ (result.set <=> pc = "done"))
  /\ [][pc = "done" => (pc' = "done" /\ result' = result /\ requests' = requests)]_vars

\* C1 witness: a second call was made and answered while the load was pending.
C1_Witness == Len(handed) >= 2 /\ pc = "fetch" /\ InFlight # {} /\ started = 1

\* C2: a failed run stays failed: the cached promise, its failure and the request
\* log never change afterwards, and every later call returns that same promise
\* without starting a run.
C2_FailureCached ==
  /\ [](pc = "failed" => (started = 1 /\ docsPromise = 1 /\ failure.kind # "none"))
  /\ [][pc = "failed" =>
          /\ pc' = "failed"
          /\ failure' = failure
          /\ requests' = requests
          /\ started' = started
          /\ docsPromise' = docsPromise
          /\ (handed' # handed => handed' = Append(handed, docsPromise))]_vars

\* C2 witness: the run has failed and two calls hold its promise.
C2_Witness == pc = "failed" /\ Len(handed) >= 2 /\ failure.kind = "SourceFetch"

\* Whether the walk throws on a manifest entry before any lookup or fetch.
EntryThrows(rawSourcePath) ==
  \/ normalizeSourcePath(rawSourcePath).threw
  \/ isTemporarilySkippedDoc(normalizeSourcePath(rawSourcePath).value).threw

EntrySkipped(rawSourcePath) ==
  /\ ~EntryThrows(rawSourcePath)
  /\ isTemporarilySkippedDoc(normalizeSourcePath(rawSourcePath).value).value

\* The manifest entries the walk has gone past: <<section index, entry index>>.
Passed ==
  {se \in (DOMAIN ObjectEntries(config)) \X (1..MaxRefs) :
     /\ se[2] <= Len(EntryList(ObjectEntries(config)[se[1]].value))
     /\ (se[1] < si \/ (se[1] = si /\ se[2] < ei))}

RawAt(se) == EntryList(ObjectEntries(config)[se[1]].value)[se[2]]

HasPage(pages, sourcePath) == \E i \in DOMAIN pages : pages[i].sourcePath = sourcePath

ApiReferenceHeading == <<"A","P","I"," ","R","e","f","e","r","e","n","c","e">>

\* C3: every failure is fatal at once.  A failed run is final, holds no DocsData and
\* issues no further request; a manifest request or a last candidate answered with
\* a failure status leaves the run failed; the run gets past an entry only if the
\* entry is valid and is skipped or has its page, so a DocsData covers every entry;
\* every page was answered with a success status, and an API reference page holds
\* the synthesized document.
C3_FailureIsFatal ==
  /\ [](/\ (pc = "failed" => ~result.set /\ failure.kind # "none")
        /\ (requests # <<>> /\ FailureStatus(requests[1].status)
              => pc = "failed" /\ failure.kind = "ConfigFetch" /\ Len(requests) = 1)
        /\ (requests # <<>> /\ FailureStatus(requests[Len(requests)].status)
              => pc = "failed")
        /\ (pc \in {"fetch", "done"} =>
              \A se \in Passed :
                /\ ~EntryThrows(RawAt(se))
                /\ \/ EntrySkipped(RawAt(se))
                   \/ HasPage(sourcePathToPage, normalizeSourcePath(RawAt(se)).value))
        /\ (pc = "done" => si = Len(ObjectEntries(config)) + 1
                           /\ result.pages = sourcePathToPage)
        /\ \A i \in DOMAIN sourcePathToPage :
             /\ \E r \in DOMAIN requests :
                  /\ requests[r].url = sourcePathToPage[i].sourceUrl
                  /\ SuccessStatus(requests[r].status)
             /\ (isApiReferenceJson(sourcePathToPage[i].sourcePath).value
                   => sourcePathToPage[i].content.heading = ApiReferenceHeading))
  /\ [][pc = "failed" => (pc' = "failed" /\ requests' = requests /\ result' = result)]_vars

\* C3 witness: a source fetch failed after a page had been built.
C3_Witness ==
  pc = "failed" /\ failure.kind = "SourceFetch" /\ Len(sourcePathToPage) >= 1 /\ ~result.set

\* Every <<section index, entry index>> of the manifest.
AllRefs ==
  {se \in (DOMAIN ObjectEntries(config)) \X (1..MaxRefs) :
     se[2] <= Len(EntryList(ObjectEntries(config)[se[1]].value))}

\* Whether the walk has started (the manifest was accepted).
Walking == pc \in {"fetch", "done"} \/ (pc = "failed" /\ si >= 1)

\* The items pushed so far, and those of the returned DocsData.
ItemsSoFar == FlatItems(sections) \o sectionItems
ReturnedItems == FlatItems(result.sections)

CandidateSet(sourcePath) ==
  Range(resolveDocSourceCandidates(docsBaseUrl, repoBaseUrl, sourcePath).value)

\* C4: the pages have pairwise different source paths; at most one request to the
\* candidates of a source path is answered with success; every item carries the
\* slug and the title of the page of its source path; and the returned DocsData
\* has a page for every entry that is not skipped and an item for every such
\* reference.
C4_OnePagePerSourcePath ==
  /\ \A i, j \in DOMAIN sourcePathToPage :
       sourcePathToPage[i].sourcePath = sourcePathToPage[j].sourcePath => i = j
  /\ Walking =>
       \A se \in AllRefs :
         ~EntryThrows(RawAt(se)) =>
           Cardinality({r \in DOMAIN requests :
                          /\ SuccessStatus(requests[r].status)
                          /\ requests[r].url
                               \in CandidateSet(normalizeSourcePath(RawAt(se)).value)}) <= 1
  /\ \A k \in DOMAIN ItemsSoFar :
       \E i \in DOMAIN sourcePathToPage :
         /\ sourcePathToPage[i].sourcePath = ItemsSoFar[k].sourcePath
         /\ sourcePathToPage[i].slug = ItemsSoFar[k].slug
         /\ sourcePathToPage[i].title = ItemsSoFar[k].title
  /\ result.set =>
       /\ result.pages = sourcePathToPage
       /\ ReturnedItems = ItemsSoFar
       /\ Len(ReturnedItems) = Cardinality({se \in AllRefs : ~EntrySkipped(RawAt(se))})
       /\ \A se \in AllRefs :
            ~EntrySkipped(RawAt(se)) =>
              Cardinality(Lookup(result.pages, normalizeSourcePath(RawAt(se)).value)) = 1

\* C4 witness: a DocsData whose two sections both reference one source path, under
\* two spellings in the manifest.
C4_Witness ==
  /\ result.set
  /\ Len(result.sections) = 2
  /\ Len(result.pages) = 1
  /\ \E a, b \in AllRefs : a[1] # b[1] /\ RawAt(a) # RawAt(b)

\* C5: no two pages share a slug, and the slugs seen are those of the pages.
C5_UniqueSlugs ==
  /\ \A i, j \in DOMAIN sourcePathToPage :
       sourcePathToPage[i].slug = sourcePathToPage[j].slug => i = j
  /\ \A i, j \in DOMAIN result.pages :
       result.pages[i].slug = result.pages[j].slug => i = j
  /\ Walking => seenSlugs = {sourcePathToPage[i].slug : i \in DOMAIN sourcePathToPage}

\* C5 witness: a page got a suffixed slug that is the base slug of another page.
C5_Witness ==
  /\ result.set
  /\ \E i, j \in DOMAIN result.pages :
       /\ i # j
       /\ result.pages[i].slug # slugFromPath(result.pages[i].sourcePath)
       /\ result.pages[i].slug = slugFromPath(result.pages[j].sourcePath)

\* A source path the claim calls invalid: empty after normalization, or with a '..'
\* segment.
Rejected(rawSourcePath) ==
  \/ NormalizedText(rawSourcePath) = <<>>
  \/ <<".", ".">> \in Range(Split(NormalizedText(rawSourcePath), "/"))

\* The URLs a fetch of the path would have asked for.
UrlsBuiltFrom(rawSourcePath) ==
  {docsBaseUrl \o encodePath(NormalizedText(rawSourcePath)),
   repoBaseUrl \o encodePath(NormalizedText(rawSourcePath)),
   rawSourcePath, NormalizedText(rawSourcePath)}

AtEntry == Walking /\ <<si, ei>> \in AllRefs

\* C6: when the walk reaches an invalid source path the run is failed with the
\* invalid-path error for that path; no run completes on a manifest that has one;
\* and no URL built from an invalid path is ever requested.
C6_InvalidPathRejected ==
  /\ AtEntry /\ Rejected(RawAt(<<si, ei>>)) =>
       /\ pc = "failed"
       /\ failure.kind = "InvalidPath"
       /\ failure.sourcePath = RawAt(<<si, ei>>)
       /\ frame = NoFrame
  /\ Walking =>
       \A se \in AllRefs :
         Rejected(RawAt(se)) =>
           /\ pc # "done"
           /\ \A r \in DOMAIN requests : requests[r].url \notin UrlsBuiltFrom(RawAt(se))
           /\ ~HasPage(sourcePathToPage, NormalizedText(RawAt(se)))

\* C6 witness: after a page was fetched, the walk reached a path with a '..' segment
\* written with backslashes and failed there.
C6_Witness ==
  /\ pc = "failed"
  /\ failure.kind = "InvalidPath"
  /\ failure.sourcePath = PathTraversal
  /\ Len(sourcePathToPage) >= 1

DocsCandidate(sourcePath) == docsBaseUrl \o encodePath(sourcePath)
RepoCandidate(sourcePath) == repoBaseUrl \o encodePath(sourcePath)

Asked(url, outcome) == [url |-> url, outcome |-> outcome]

\* The requests that account for the pages: for each page in turn its docs-relative
\* URL, answered with success if that is the page's sourceUrl, and otherwise
\* answered with a failure and followed by the repo-root URL answered with success.
RECURSIVE RequestsFor(_)
RequestsFor(pages) ==
  IF pages = <<>> THEN <<>>
  ELSE LET page == Head(pages)
       IN (IF page.sourceUrl = DocsCandidate(page.sourcePath)
           THEN <<Asked(DocsCandidate(page.sourcePath), "ok")>>
           ELSE <<Asked(DocsCandidate(page.sourcePath), "failed"),
                  Asked(RepoCandidate(page.sourcePath), "ok")>>)
          \o RequestsFor(Tail(pages))

\* The requests of the fetch in progress: the docs-relative URL in flight, or
\* answered with a failure and the repo-root URL in flight.
RequestsInProgress ==
  IF pc # "fetch" THEN <<>>
  ELSE IF frame.index = 1 THEN <<Asked(DocsCandidate(frame.sourcePath), "pending")>>
  ELSE <<Asked(DocsCandidate(frame.sourcePath), "failed"),
         Asked(RepoCandidate(frame.sourcePath), "pending")>>

Outcome(status) ==
  IF status = 0 THEN "pending" ELSE IF SuccessStatus(status) THEN "ok" ELSE "failed"

RequestsSeen ==
  [r \in DOMAIN requests |-> Asked(requests[r].url, Outcome(requests[r].status))]

\* C7: with relative source paths only, the request log of a run that has not
\* failed is the manifest request followed, page by page, by the docs-relative
\* request and, only when that one failed, the repo-root request; the accepted
\* request is the last of its page and its URL is the page's sourceUrl.
C7_CandidatesInOrder ==
  /\ pc \in {"fetch", "done"} =>
       RequestsSeen =
         <<Asked(DOCS_JSON_URL, "ok")>> \o RequestsFor(sourcePathToPage) \o RequestsInProgress
  /\ \A i \in DOMAIN sourcePathToPage :
       LET page == sourcePathToPage[i]
       IN /\ page.sourceUrl \in {DocsCandidate(page.sourcePath), RepoCandidate(page.sourcePath)}
          /\ DocsCandidate(page.sourcePath) # RepoCandidate(page.sourcePath)

\* C7 witness: a DocsData with a page accepted from the repo-root URL.
C7_Witness ==
  /\ result.set
  /\ \E i \in DOMAIN result.pages :
       result.pages[i].sourceUrl = RepoCandidate(result.pages[i].sourcePath)

\* The candidates of a source path, as the claim lists them.
CandidatesClaimed(sourcePath) ==
  IF IsAbsoluteUrl(sourcePath) THEN <<sourcePath>>
  ELSE <<DocsCandidate(sourcePath), RepoCandidate(sourcePath)>>

\* C8: a source-fetch error carries one attempt per candidate of its source path,
\* in candidate order; the candidates are pairwise different and are, one request
\* each, the last requests of the log, answered with the failure statuses the
\* error carries; and a fetch whose last candidate was answered with a failure
\* has thrown that error.
C8_AllCandidatesFailed ==
  /\ failure.kind = "SourceFetch" =>
       LET cands == CandidatesClaimed(failure.sourcePath)
           n == Len(cands)
           first == Len(requests) - n
       IN /\ pc = "failed"
          /\ Len(failure.attempts) = n
          /\ first >= 1
          /\ \A k \in 1..n :
               /\ failure.attempts[k].url = cands[k]
               /\ requests[first + k].url = cands[k]
               /\ requests[first + k].status = failure.attempts[k].status
               /\ FailureStatus(failure.attempts[k].status)
          /\ \A j, k \in 1..n : cands[j] = cands[k] => j = k
          /\ cands = resolveDocSourceCandidates(docsBaseUrl, repoBaseUrl, failure.sourcePath).value
  /\ Len(requests) > 1 /\ FailureStatus(requests[Len(requests)].status) =>
       failure.kind = "SourceFetch"

\* C8 witness: both candidates of a relative path failed, with different statuses.
C8_Witness ==
  /\ failure.kind = "SourceFetch"
  /\ Len(failure.attempts) = 2
  /\ failure.attempts[1].status # failure.attempts[2].status

\* C9: a returned DocsData has at least one page, and a walk that ends without a
\* page ends in the empty-result error and in nothing else.
C9_NeverEmptyPages ==
  /\ result.set => Len(result.pages) >= 1
  /\ failure.kind = "EmptyResult" =>
       pc = "failed" /\ sourcePathToPage = <<>> /\ \A se \in AllRefs : EntrySkipped(RawAt(se))
  /\ (Walking /\ pc # "fetch" /\ \A se \in AllRefs : EntrySkipped(RawAt(se))) =>
       failure.kind = "EmptyResult"

\* C9 witness: the manifest has entries, all skipped, and the run failed as empty.
C9_Witness == failure.kind = "EmptyResult" /\ AllRefs # {} /\ ~result.set

\* C10: every section pushed or returned has an item, and a returned DocsData has
\* exactly the sections of the manifest that have an entry that is not skipped.
C10_NoEmptySection ==
  /\ \A k \in DOMAIN sections : Len(sections[k].items) >= 1
  /\ \A k \in DOMAIN result.sections : Len(result.sections[k].items) >= 1
  /\ result.set =>
       {result.sections[k].id : k \in DOMAIN result.sections}
         = {ObjectEntries(config)[se[1]].key : se \in {x \in AllRefs : ~EntrySkipped(RawAt(x))}}

\* C10 witness: a DocsData that leaves out a section of the manifest whose entries
\* are all skipped.
C10_Witness ==
  /\ result.set
  /\ Len(result.sections) < Len(ObjectEntries(config))
  /\ \E se \in AllRefs : EntrySkipped(RawAt(se))

\* C11: in a returned DocsData firstSlug is not null and is the slug, a text that is
\* not empty, of the first item of the first section.
C11_FirstSlug ==
  result.set =>
    /\ ~result.firstSlug.isNull
    /\ Len(result.sections) >= 1
    /\ Len(result.sections[1].items) >= 1
    /\ result.firstSlug.slug = result.sections[1].items[1].slug
    /\ result.firstSlug.slug # NoText

\* C11 witness: a DocsData with two sections whose first items differ; firstSlug is
\* that of the first.
C11_Witness ==
  /\ result.set
  /\ Len(result.sections) = 2
  /\ result.sections[1].items[1].slug # result.sections[2].items[1].slug
  /\ result.firstSlug.slug = result.sections[1].items[1].slug

\* The normalized source paths of the list `raws` that are not skipped, in list order.
RECURSIVE KeptPaths(_)
KeptPaths(raws) ==
  IF raws = <<>> THEN <<>>
  ELSE (IF EntrySkipped(Head(raws)) THEN <<>> ELSE <<NormalizedText(Head(raws))>>)
         \o KeptPaths(Tail(raws))

\* The sections a walk over `members` in the given order yields: the id and the kept
\* paths of every member that keeps a path.
RECURSIVE SectionsInOrder(_)
SectionsInOrder(members) ==
  IF members = <<>> THEN <<>>
  ELSE LET paths == KeptPaths(EntryList(Head(members).value))
       IN (IF paths = <<>> THEN <<>> ELSE <<[id |-> Head(members).key, paths |-> paths]>>)
            \o SectionsInOrder(Tail(members))

\* The id and the item source paths of every returned section, in order.
ReturnedOrder ==
  [k \in DOMAIN result.sections |->
     [id |-> result.sections[k].id,
      paths |-> [j \in DOMAIN result.sections[k].items |->
                   result.sections[k].items[j].sourcePath]]]

\* C12: the returned sections are the manifest's members that keep an entry, in the
\* order the keys have in the manifest document, and the items of a section are its
\* entries that are not skipped, in list order, one per reference.
C12_ManifestOrder ==
  result.set => ReturnedOrder = SectionsInOrder(config.members)

\* A value of the parsed manifest that is neither a string nor a list of strings.
BadValue(entry) ==
  /\ entry.t # "string"
  /\ ~(entry.t = "array" /\ \A j \in DOMAIN entry.items : entry.items[j].t = "string")

HasBadValue(parsed) == \E i \in DOMAIN parsed.members : BadValue(parsed.members[i].value)

\* C13: a manifest request answered with a failure status fails the run with the
\* config-fetch error, a parsed manifest with a value that is neither a string nor a
\* list of strings fails it with the config-schema error, and in both cases the
\* manifest request is the only request of the run and no page is built.
C13_ManifestLoader ==
  /\ (Len(requests) >= 1 /\ FailureStatus(requests[1].status)) =>
       /\ pc = "failed"
       /\ failure.kind = "ConfigFetch"
       /\ failure.attempts = <<[url |-> DOCS_JSON_URL, status |-> requests[1].status]>>
  /\ HasBadValue(config) => pc = "failed" /\ failure.kind = "ConfigSchema"
  /\ failure.kind \in {"ConfigFetch", "ConfigSchema"} =>
       /\ requests = <<[url |-> DOCS_JSON_URL, status |-> requests[1].status]>>
       /\ sourcePathToPage = <<>>
       /\ ~result.set
       /\ si = 0

\* C13 witness: a manifest answered with success whose one list holds a value that
\* is not a string, and the run failed with the config-schema error.
C13_Witness ==
  /\ failure.kind = "ConfigSchema"
  /\ SuccessStatus(requests[1].status)
  /\ \E i \in DOMAIN config.members :
       config.members[i].value.t = "array" /\ BadValue(config.members[i].value)

\* An entry on the skip list as the claim has it: its normalized path, in lower case,
\* is a skip-list entry.
SkipListed(rawSourcePath) == ToLowerCase(NormalizedText(rawSourcePath)) \in TEMP_SKIPPED_DOCS

\* C14: an entry whose normalized path is, case-insensitively, a skip-list entry is
\* never requested, has no page and no item and consumes no slug; every other entry,
\* also one whose normalized path only ends with a skip-list entry, is walked: a
\* returned DocsData has its page and an item for it.
C14_SkipListExactMatch ==
  Walking =>
    \A se \in AllRefs :
      IF SkipListed(RawAt(se))
      THEN /\ \A r \in DOMAIN requests : requests[r].url \notin UrlsBuiltFrom(RawAt(se))
           /\ ~HasPage(sourcePathToPage, NormalizedText(RawAt(se)))
           /\ \A k \in DOMAIN ItemsSoFar : ItemsSoFar[k].sourcePath # NormalizedText(RawAt(se))
           /\ seenSlugs = {sourcePathToPage[i].slug : i \in DOMAIN sourcePathToPage}
      ELSE result.set =>
             /\ HasPage(result.pages, NormalizedText(RawAt(se)))
             /\ \E k \in DOMAIN ReturnedItems :
                  ReturnedItems[k].sourcePath = NormalizedText(RawAt(se))

\* The kept paths of all `members`, in order, one per reference.
RECURSIVE KeptPathsOfAll(_)
KeptPathsOfAll(members) ==
  IF members = <<>> THEN <<>>
  ELSE KeptPaths(EntryList(Head(members).value)) \o KeptPathsOfAll(Tail(members))

\* The source paths to fetch when `members` are walked in the given order: each kept
\* path at its first reference.
FetchOrder(members) == FirstOccurrences(KeptPathsOfAll(members), {})

\* The position in `order` of the source path a requested URL is a candidate of.
PositionOf(order, url) == CHOOSE i \in DOMAIN order : url \in CandidateSet(order[i])

\* The requests of a run against the source paths in `order`: one request in flight at
\* most, and it is the last; the manifest first and only once; then the candidates of
\* the paths in that order, those of a path only after the pages of all earlier
\* paths are in the map.
FetchedInOrder(order) ==
  /\ Cardinality(InFlight) <= 1
  /\ InFlight \subseteq {Len(requests)}
  /\ \A r \in DOMAIN requests : (r = 1) <=> (requests[r].url = DOCS_JSON_URL)
  /\ Walking =>
       /\ \A r \in 2..Len(requests) :
            /\ \E i \in DOMAIN order : requests[r].url \in CandidateSet(order[i])
            /\ PositionOf(order, requests[r].url) <= Len(sourcePathToPage) + 1
            /\ \A q \in 2..r :
                 PositionOf(order, requests[q].url) <= PositionOf(order, requests[r].url)
       /\ Len(sourcePathToPage) <= Len(order)
       /\ \A i \in DOMAIN sourcePathToPage : sourcePathToPage[i].sourcePath = order[i]
       /\ pc = "fetch" =>
            /\ Len(sourcePathToPage) < Len(order)
            /\ frame.sourcePath = order[Len(sourcePathToPage) + 1]
            /\ requests[Len(requests)].url \in CandidateSet(frame.sourcePath)

\* C15: at most one request is in flight; the manifest is requested first, then the
\* source documents one at a time in the order the manifest document lists them, a
\* later one only after the pages of the earlier ones are recorded in the map.
C15_SequentialFetches == FetchedInOrder(FetchOrder(config.members))

PageOf(sourcePath) ==
  result.pages[CHOOSE k \in DOMAIN result.pages : result.pages[k].sourcePath = sourcePath]

\* C17 as stated: of two different source paths with the same base slug x, the page
\* of the one the manifest lists first has slug x and the page of the other has slug
\* x-2, whatever else the manifest holds.
C17_SecondAlwaysGetsTwo ==
  result.set =>
    LET order == FetchOrder(config.members)
    IN \A i, j \in DOMAIN order :
         (i < j /\ slugFromPath(order[i]) = slugFromPath(order[j])) =>
           /\ PageOf(order[i]).slug = slugFromPath(order[i])
           /\ PageOf(order[j]).slug = Suffixed(slugFromPath(order[i]), 2)

\* The slugs of the pages built before the k-th one.
SlugsBefore(pages, k) == {pages[i].slug : i \in 1..(k - 1)}

\* C17 amended: a page gets its base slug x when no page built before it has that
\* slug, and otherwise x-N for the least N >= 2 such that no page built before it has
\* slug x-N; so of two source paths with base slug x the first built gets x and the
\* second gets x-2 unless a page built earlier already has that slug.
C17_FirstFreeSuffix ==
  /\ \A k \in DOMAIN sourcePathToPage :
       LET page == sourcePathToPage[k]
           x == slugFromPath(page.sourcePath)
           before == SlugsBefore(sourcePathToPage, k)
       IN IF x \notin before THEN page.slug = x
          ELSE \E n \in 2..(k + 1) :
                 /\ page.slug = Suffixed(x, n)
                 /\ Suffixed(x, n) \notin before
                 /\ \A m \in 2..(n - 1) : Suffixed(x, m) \in before
  /\ \A i, j \in DOMAIN sourcePathToPage :
       LET x == slugFromPath(sourcePathToPage[i].sourcePath)
       IN (i < j /\ x = slugFromPath(sourcePathToPage[j].sourcePath)) =>
            /\ x \notin SlugsBefore(sourcePathToPage, i) => sourcePathToPage[i].slug = x
            /\ (sourcePathToPage[i].slug = x
                  /\ Suffixed(x, 2) \notin SlugsBefore(sourcePathToPage, j))
                 => sourcePathToPage[j].slug = Suffixed(x, 2)
  /\ result.set => result.pages = sourcePathToPage

\* C17 witness: a DocsData in which the second of two pages with base slug x has
\* slug x-3, a page built before them having the slug x-2.
C17_Witness ==
  /\ result.set
  /\ \E i, j \in DOMAIN result.pages :
       /\ i < j
       /\ slugFromPath(result.pages[i].sourcePath) = slugFromPath(result.pages[j].sourcePath)
       /\ result.pages[i].slug = slugFromPath(result.pages[i].sourcePath)
       /\ result.pages[j].slug = Suffixed(slugFromPath(result.pages[i].sourcePath), 3)

\* The order of the UTF-16 code units of the characters above: what `<` on texts and a
\* sort without comparator go by.
CodeUnitOrder ==
  <<" ", "-", "/", "0", "1", "2", "3", "4", "5", "6", "7", "8", "9">>
    \o UpperChars \o <<"_">> \o LowerChars \o <<"{", "}">>

CodeUnit(c) == CHOOSE n \in DOMAIN CodeUnitOrder : CodeUnitOrder[n] = c

CompareCodeUnits(a, b) ==
  CompareWeights([i \in DOMAIN a |-> CodeUnit(a[i])], [i \in DOMAIN b |-> CodeUnit(b[i])])

\* The index rows the function makes of a list of entries.
RowsOf(entries) ==
  LET sorted == SortedEndpoints(NormalizeEndpoints(entries))
  IN IndexRows(sorted, AssignAnchors(sorted, <<>>))

\* The lists that hold the entries of `entries` in another order.
Reordered(entries) ==
  {[i \in DOMAIN entries |-> entries[f[i]]] : f \in Permutations(DOMAIN entries)}

\* C18 as stated: the index rows are in lexicographic order of their paths and, among
\* equal paths, of their methods, and they are the same rows in the same order for
\* every order of the entries in the document.
C18_RowsLexicographic ==
  reference.step = "returned" =>
    LET rows == reference.out.indexRows
    IN /\ \A i, j \in DOMAIN rows :
            i < j =>
              \/ CompareCodeUnits(rows[i].path, rows[j].path) < 0
              \/ /\ rows[i].path = rows[j].path
                 /\ CompareCodeUnits(rows[i].method, rows[j].method) <= 0
       /\ \A entries \in Reordered(reference.doc.endpoints) : RowsOf(entries) = rows

\* The path headings of the detail blocks, over all groups.
DetailPaths(blocks) ==
  UNION {{blocks[g].paths[k] : k \in DOMAIN blocks[g].paths} : g \in DOMAIN blocks}

\* The headings of a path in one group of the detail blocks.
HeadingsOf(blocks, g, path) == SelectSeq(blocks[g].paths, LAMBDA d : d.path = path)

\* C19: in a returned reference two index rows have the same anchor exactly when they
\* have the same path; every path of the index has exactly one detail block, whose
\* anchor is the one its rows link to, and every detail block is of a path of the
\* index; an anchor is the slug derived from its path, or that slug with a numeric
\* suffix -2, -3, ...
C19_OneAnchorPerPath ==
  reference.step = "returned" =>
    LET rows == reference.out.indexRows
        blocks == reference.out.detailBlocks
    IN /\ \A i, j \in DOMAIN rows :
            (rows[i].path = rows[j].path) <=> (rows[i].anchor = rows[j].anchor)
       /\ \A i \in DOMAIN rows :
            /\ \E g \in DOMAIN blocks :
                 /\ Len(HeadingsOf(blocks, g, rows[i].path)) = 1
                 /\ \A h \in DOMAIN blocks \ {g} : HeadingsOf(blocks, h, rows[i].path) = <<>>
            /\ \A d \in DetailPaths(blocks) :
                 d.path = rows[i].path => d.anchor = rows[i].anchor
            /\ \/ rows[i].anchor = buildPathAnchor(rows[i].path)
               \/ \E n \in 2..(Len(rows) + 1) :
                    rows[i].anchor = Suffixed(buildPathAnchor(rows[i].path), n)
       /\ \A d \in DetailPaths(blocks) : \E i \in DOMAIN rows : rows[i].path = d.path

\* C19 witness: a returned reference with two rows of one path and two methods, and
\* two rows of different paths that derive the same slug.
C19_Witness ==
  /\ reference.step = "returned"
  /\ \E i, j \in DOMAIN reference.out.indexRows :
       /\ reference.out.indexRows[i].path = reference.out.indexRows[j].path
       /\ reference.out.indexRows[i].method # reference.out.indexRows[j].method
  /\ \E i, j \in DOMAIN reference.out.indexRows :
       /\ reference.out.indexRows[i].path # reference.out.indexRows[j].path
       /\ buildPathAnchor(reference.out.indexRows[i].path)
            = buildPathAnchor(reference.out.indexRows[j].path)

\* The entries of a document the callback of the map keeps and the filter before the
\* sort lets through: objects whose method and path are strings, not flagged html.
IsRemaining(entry) ==
  /\ entry.t = "object"
  /\ entry.method.t = "string"
  /\ entry.path.t = "string"
  /\ ~entry.html

\* C20: a call has thrown exactly when the text is not JSON, the value is not an
\* object, or it has no endpoints array, and then with the error of that check; a
\* call on any other document has returned or is on its way, whatever its entries are;
\* in a returned reference the stated count is the number of index rows, which is the
\* number of entries that are objects with a string method and a string path and are
\* not flagged html, and every such entry has a row of its trimmed path and its
\* trimmed, upper-cased method.
C20_OnlyTheDocumentFails ==
  LET doc == reference.doc
      malformed == doc.t # "object" \/ ~doc.hasArray
      remaining == SelectSeq(doc.endpoints, IsRemaining)
      rows == reference.out.indexRows
  IN /\ reference.step = "thrown" =>
          /\ malformed
          /\ reference.error = (IF doc.t = "not-json" THEN "Invalid JSON"
                                ELSE IF doc.t = "scalar" THEN "expected JSON object"
                                ELSE "\"endpoints\" must be an array")
     /\ (reference.step \notin {"none", "parse", "thrown"}) => ~malformed
     /\ reference.step = "returned" =>
          /\ reference.error = "none"
          /\ reference.out.count = Len(rows)
          /\ Len(rows) = Len(remaining)
          /\ \A k \in DOMAIN remaining :
               \E i \in DOMAIN rows :
                 /\ rows[i].path = Trim(remaining[k].path.s)
                 /\ rows[i].method = ToUpperCase(Trim(remaining[k].method.s))

\* C20 witness: a returned reference of a document that holds an entry without a
\* string method or path, an entry flagged html and an entry that has a row.
C20_Witness ==
  /\ reference.step = "returned"
  /\ \E i \in DOMAIN reference.doc.endpoints :
       /\ reference.doc.endpoints[i].t = "object"
       /\ \/ reference.doc.endpoints[i].method.t # "string"
          \/ reference.doc.endpoints[i].path.t # "string"
  /\ \E i \in DOMAIN reference.doc.endpoints :
       /\ IsRemaining([reference.doc.endpoints[i] EXCEPT !.html = FALSE])
       /\ reference.doc.endpoints[i].html
  /\ reference.out.count = 1

\* C24: the candidate list of a fetch is the source path itself and nothing else
\* when the path is an absolute http(s) URL; otherwise it is two different URLs, the
\* docs-relative one and then the repo-root one, and the repo-root URL stands in it
\* once, also when the path starts with docs/.
C24_CandidateList ==
  pc = "fetch" =>
    LET sourcePath == frame.sourcePath
        candidates == frame.candidates
        safePath == normalizeSourcePath(sourcePath).value
        fromDocs == docsBaseUrl \o encodePath(safePath)
        fromRepo == repoBaseUrl \o encodePath(safePath)
    IN IF IsAbsoluteUrl(sourcePath) THEN candidates = <<sourcePath>>
       ELSE /\ candidates = <<fromDocs, fromRepo>>
            /\ fromDocs # fromRepo
            /\ Cardinality({k \in DOMAIN candidates : candidates[k] = fromRepo}) = 1

\* C24 witness: a fetch of a path that starts with docs/, after a page was taken from
\* an absolute URL.
C24_Witness ==
  /\ pc = "fetch"
  /\ StartsWith(frame.sourcePath, <<"d","o","c","s","/">>)
  /\ Len(frame.candidates) = 2
  /\ \E i \in DOMAIN sourcePathToPage :
       /\ IsAbsoluteUrl(sourcePathToPage[i].sourcePath)
       /\ sourcePathToPage[i].sourceUrl = sourcePathToPage[i].sourcePath

\* The items of all sections of a DocsData, in order.
NavigationItems(data) == FlatItems(data.sections)

\* C27: in a returned DocsData every item of every section has the slug and the
\* sourcePath of exactly one page of pages, and every page of pages has an item in
\* some section.
C27_NavigationAgreesWithPages ==
  result.set =>
    LET items == NavigationItems(result)
        pages == result.pages
    IN /\ \A k \in DOMAIN items :
            Cardinality({i \in DOMAIN pages :
                           /\ pages[i].slug = items[k].slug
                           /\ pages[i].sourcePath = items[k].sourcePath}) = 1
       /\ \A i \in DOMAIN pages :
            \E k \in DOMAIN items :
              /\ items[k].slug = pages[i].slug
              /\ items[k].sourcePath = pages[i].sourcePath

\* C27 witness: a DocsData of two pages, one of them listed in two sections.
C27_Witness ==
  /\ result.set
  /\ Len(result.pages) = 2
  /\ \E s, t \in DOMAIN result.sections :
       /\ s # t
       /\ \E j \in DOMAIN result.sections[s].items, k \in DOMAIN result.sections[t].items :
            result.sections[s].items[j].sourcePath = result.sections[t].items[k].sourcePath

\* The words of a base slug.
Readme == <<"r","e","a","d","m","e">>
Home == <<"h","o","m","e">>

C26_DecodeUndoesEscape ==
  (call.fn = "escapeHtml" /\ call.step = "decoded") => call.value = call.arg

\* The blocks of the page that are code blocks, once the code pass has run.
CodeBlocks ==
  IF document.step \in {"code", "tables", "images"}
  THEN {i \in DOMAIN document.source : document.source[i].kind = "code"}
  ELSE {}

\* The diagram rule of C21 on the text as authored: lines are counted in the text
\* without the white space around it, box-drawing characters and arrows in the whole
\* text.
DiagramRule(text) ==
  LET lines == Split(TrimWhite(text), "\n")
  IN /\ Len(lines) >= 4
     /\ CountOf(text, BoxChars) >= 6 \/ CountOf(text, ArrowChars) >= 2
     /\ \A k \in DOMAIN lines : ~CommandLike(lines[k])

\* The terminal rule of C21: one line of the terminal for each line of the text
\* without the white space after it, a comment if and only if the trimmed line starts
\* with '#'.
TerminalRule(text, node) ==
  LET lines == Split(TrimEnd(text), "\n")
  IN /\ node.kind = "terminal"
     /\ Len(node.lines) = Len(lines)
     /\ \A k \in DOMAIN lines :
          node.lines[k].isComment <=> StartsWith(TrimWhite(lines[k]), <<"#">>)

\* C21: every code block is handled by exactly one rule, chosen in the order diagram,
\* shell, JSON, unmodified: a block of at least 4 lines with at least 6 box-drawing
\* characters or at least 2 arrows and no command-like line is a diagram whatever its
\* language tag; otherwise a shell-tagged block is a terminal whose lines are marked
\* comment exactly when the trimmed line starts with '#'; otherwise a JSON-tagged block
\* is rendered as JSON; any other block is the block the renderer made.
C21_OneRuleInOrder ==
  \A i \in CodeBlocks :
    LET block == document.source[i]
        node == document.html[i]
        tag == ToLowerCase(block.fence)
    IN IF DiagramRule(block.text) THEN node.kind = "diagram"
       ELSE IF isShellLanguage(tag) THEN TerminalRule(block.text, node)
       ELSE IF isJsonLanguage(tag) THEN node.kind = "json"
       ELSE node = Rendered(block)

\* A block fenced as bash that is drawn as a diagram.
C21_Witness ==
  \E i \in CodeBlocks :
    /\ isShellLanguage(document.source[i].fence)
    /\ DiagramRule(document.source[i].text)
    /\ document.html[i].kind = "diagram"

\* The blocks of the page that are tables, once the table pass has run.
Tables ==
  IF document.step \in {"tables", "images"}
  THEN {i \in DOMAIN document.source : document.source[i].kind = "table"}
  ELSE {}

\* The text a cell shows: its html without tags, entities and white space around it.
CellText(cell) == stripHtmlTags(cell.inner)

\* A header reads a word when its text holds it, whatever the case of the letters.
Reads(cell, word) == Contains(ToLowerCase(CellText(cell)), word)

\* The header C22 asks for.
ApiHeader(head) ==
  /\ Len(head) >= 2
  /\ Reads(head[1], <<"m","e","t","h","o","d">>)
  /\ \/ Reads(head[2], <<"e","n","d","p","o","i","n","t">>)
     \/ Reads(head[2], <<"p","a","t","h">>)

\* The renderings C22 gives the columns of an API table.
MethodBadge(cell, styled) ==
  /\ styled.content.form = "badge"
  /\ styled.content.class = methodBadgeClass(ToUpperCase(CellText(cell)))

EndpointChip(cell, styled) ==
  CellText(cell) # <<>> =>
    /\ styled.content.form = "chip"
    /\ styled.content.href # NoText <=> Contains(ToLowerCase(cell.inner), <<"h","r","e","f","=">>)

FlagChip(cell, styled) ==
  LET value == ToUpperCase(CellText(cell))
  IN IF value = <<"X">> THEN styled.content.form = "cross"
     ELSE IF value \in {<<CheckMark>>, <<"Y","E","S">>, <<"T","R","U","E">>}
     THEN styled.content.form = "check"
     ELSE styled.content = RawContent(TrimWhite(cell.inner))

\* C22: the API rendering (column 0 a method badge in the colour of its method, column
\* 1 an endpoint chip, linked when the cell has a link, column 2 a check or cross chip
\* for x, the check mark, yes or true) is applied to a table if and only if the first
\* column of its header reads 'method' and the second 'endpoint' or 'path', whatever
\* the case; in every other table each cell holds what it held.
C22_ApiTablesByHeader ==
  \A i \in Tables :
    LET table == document.source[i]
        node == document.html[i]
    IN \A r \in DOMAIN table.rows :
         \A c \in DOMAIN table.rows[r] :
           LET cell == table.rows[r][c]
               styled == node.rows[r][c]
           IN IF ~ApiHeader(table.head)
              THEN styled.content = RawContent(TrimWhite(cell.inner))
              ELSE IF c = 1 THEN MethodBadge(cell, styled)
              ELSE IF c = 2 THEN EndpointChip(cell, styled)
              ELSE IF c = 3 THEN FlagChip(cell, styled)
              ELSE styled.content = RawContent(TrimWhite(cell.inner))

\* The blocks of the page, once the image pass has run.
AfterImages == IF document.step = "images" THEN DOMAIN document.source ELSE {}

\* A source is relative: no scheme, not protocol-relative, not starting with '/' or
\* '#', not empty, the white space around it aside.
Relative(src) ==
  LET url == TrimWhite(src)
  IN /\ url # <<>>
     /\ Head(url) \notin {"/", "#"}
     /\ ~HasScheme(url)

\* The paragraph of an image with its src resolved: the attribute may keep its
\* spelling and its quotes or be written src="...".
Resolved(block, sourceUrl) ==
  {Paragraph(Tag(block.form, name, quote, ResolvedUrl(block.src, sourceUrl))) :
     name \in {SrcName(block.form), <<"s","r","c">>},
     quote \in {SrcQuote(block.form), <<"\"">>}}

\* C23: the image pass rewrites the src of an <img> tag only when the source is
\* relative, resolving it against the source URL of the page; every other <img> tag is
\* left exactly as it was, and nothing outside <img> tags is changed.  A relative src
\* written without quotes may be resolved or left.
C23_OnlyRelativeSources ==
  \A i \in AfterImages :
    LET block == document.source[i]
        before == transformDocsTables(transformDocsCodeBlocks(<<Rendered(block)>>))[1]
        after == document.html[i]
    IN IF block.kind # "image" THEN after = before
       ELSE IF block.form \in {"none", "image"} THEN after = before
       ELSE IF ~Relative(block.src) THEN after = before
       ELSE IF block.form = "unquoted"
       THEN after = before \/ after.html \in Resolved(block, document.sourceUrl)
       ELSE after.html \in Resolved(block, document.sourceUrl)

====
